---- MODULE Spec2Model ----
(***************************************************************************)
(* A model of the smart-search orchestration core:                         *)
(*   - CircuitBreaker                 (core/smart_search.py, 69-137)       *)
(*   - SmartSearch.search and friends (core/smart_search.py, 140-838)      *)
(*   - the governance showcase /search endpoint (showcases/.../app)        *)
(*                                                                         *)
(* The specifications of the module:                                       *)
(*   SpecBreaker  one CircuitBreaker driven by concurrent call()s          *)
(*   Spec         one SmartSearch with a cache and a database              *)
(*   SpecNoCache  one SmartSearch with a database only                     *)
(*   SpecHybrid   one SmartSearch with hybrid search enabled               *)
(*   SpecSelect   _determine_search_strategy as a function                 *)
(*   SpecGov      the showcase /search endpoint with its response cache    *)
(*   SpecPolicy   compile_policy's row predicate as a function             *)
(*   SpecMerge    hybrid_search's gathering and the merges as functions    *)
(*   SpecMask     the masking functions applied to values                  *)
(*   SpecQuery    one search() with its log lines and response metadata    *)
(*   SpecSecure   one secure_search() with the audit entries it writes      *)
(*   SpecTimeout  one search() awaiting a database that takes its time      *)
(*   SpecHealth   get_cache_health and the decision on it as functions       *)
(*   SpecStale    concurrent health queries, the cache's health changing     *)
(*   SpecConfig   the breaker and health-cache settings a configuration gives *)
(*   SpecGather   one hybrid_search, its two backend searches in flight       *)
(*   FairRecover  callers of one breaker whose backend recovers, with fairness *)
(*   SpecProviders create_search_from_providers and the providers' connections *)
(***************************************************************************)
EXTENDS Integers, Sequences, FiniteSets, TLC

VARIABLES
    \* ---- SpecBreaker: a single CircuitBreaker and its callers
    cb,         \* the breaker's fields
    pending,    \* per caller: "idle", or the call whose wrapped operation is awaited
    streak,     \* history: consecutive failed call()s since the last success (saturating)
    lastCall,   \* history: the last call() that finished
    now,        \* the wall clock, time.time()
    \* ---- Spec: one SmartSearch instance
    cfg,            \* SmartSearchConfig: which backends and features are configured
    circuit_breakers, \* self.circuit_breakers: one breaker per configured backend
    health_cache,   \* self._health_cache["cache"]: (HealthStatus, timestamp) or absent
    resp,           \* history: what the last request returned or raised, and how
    s2,             \* history: length of the run of cache-failed, database-served
                    \* searches since construction (-1 once anything else happened);
                    \* without a cache, of the searches whose database searches failed
    lastStart,      \* history: s2 and the cache breaker's age when the last request began
    \* ---- SpecGov: the showcase API (app/main.py)
    policy,         \* the dataset's governance policy file, as yaml.safe_load reads it
    dataset_meta,   \* Redis hash dataset_meta:<dataset> and the JSONL file it names
    redis,          \* Redis keys search:<digest>: cached /search payloads
    gresp,          \* history: the last /search response and who asked for it
    \* ---- SpecPolicy: compile_policy's predicate as a function
    rls_in,         \* the policy, role, user context and row at hand
    rls_out,        \* the predicate's answer, once evaluated
    \* ---- SpecMerge, SpecMask: the merge engine and the masks as functions
    fn_in,          \* the arguments at hand
    fn_out          \* what the function applied to them gave

bvars == <<cb, pending, streak, lastCall>>
ovars == <<cfg, circuit_breakers, health_cache, resp, s2, lastStart>>
gvars == <<policy, dataset_meta, redis, gresp, rls_in, rls_out, fn_in, fn_out>>

(***************************************************************************)
(* Bounds and program constants                                            *)
(***************************************************************************)
\* CircuitBreaker.__init__ defaults
failure_threshold == 5
success_threshold == 3
\* recovery_timeout in clock ticks (the source default is 60.0 s; scaled)
recovery_timeout == 2
\* number of concurrent callers of one breaker
MaxInflight == 2

\* time.time() is far past the epoch: a fresh breaker's last_failure_time = 0
\* is already older than recovery_timeout
StartTime == recovery_timeout
\* the clock runs for one recovery period
MaxTime == StartTime + recovery_timeout

\* time passes between requests
Tick ==
    /\ now < MaxTime
    /\ now' = now + 1

Min(a, b) == IF a <= b THEN a ELSE b
Max(a, b) == IF a >= b THEN a ELSE b

(***************************************************************************)
(* CircuitBreaker                                                          *)
(***************************************************************************)
\* CircuitBreaker.__init__
NewBreaker ==
    [state |-> "CLOSED", failure_count |-> 0, success_count |-> 0,
     last_failure_time |-> 0]

\* a slip in is_open: an OPEN breaker recovers without waiting
is_open_early(b, t) ==
    IF b.state = "OPEN"
    THEN [cb |-> [b EXCEPT !.state = "HALF_OPEN"], open |-> FALSE]
    ELSE [cb |-> b, open |-> FALSE]

\* a slip in is_open: an OPEN breaker is never reported open
is_open_never(b, t) == [cb |-> b, open |-> FALSE]

\* CircuitBreaker.is_open at time t: the breaker afterwards and the answer
is_open(b, t) ==
    IF b.state = "OPEN"
    THEN IF t - b.last_failure_time >= recovery_timeout
         THEN [cb |-> [b EXCEPT !.state = "HALF_OPEN"], open |-> FALSE]
         ELSE [cb |-> b, open |-> TRUE]
    ELSE [cb |-> b, open |-> FALSE]

\* a slip in record_success: successes while HALF_OPEN are not counted
record_success_closed_only(b) ==
    IF b.state = "CLOSED"
    THEN [b EXCEPT !.failure_count = Max(0, b.failure_count - 1)]
    ELSE b

\* a slip in record_success: failure_count is lowered without the floor at 0
record_success_unclamped(b) ==
    IF b.state = "HALF_OPEN"
    THEN IF b.success_count + 1 >= success_threshold
         THEN [b EXCEPT !.state = "CLOSED", !.failure_count = 0, !.success_count = 0]
         ELSE [b EXCEPT !.success_count = b.success_count + 1]
    ELSE IF b.state = "CLOSED"
    THEN [b EXCEPT !.failure_count = b.failure_count - 1]
    ELSE b

\* a slip in record_success: closing the breaker keeps failure_count
record_success_keeps_failures(b) ==
    IF b.state = "HALF_OPEN"
    THEN IF b.success_count + 1 >= success_threshold
         THEN [b EXCEPT !.state = "CLOSED", !.success_count = 0]
         ELSE [b EXCEPT !.success_count = b.success_count + 1]
    ELSE IF b.state = "CLOSED"
    THEN [b EXCEPT !.failure_count = Max(0, b.failure_count - 1)]
    ELSE b

\* CircuitBreaker.record_success
record_success(b) ==
    IF b.state = "HALF_OPEN"
    THEN IF b.success_count + 1 >= success_threshold
         THEN [b EXCEPT !.state = "CLOSED", !.failure_count = 0, !.success_count = 0]
         ELSE [b EXCEPT !.success_count = b.success_count + 1]
    ELSE IF b.state = "CLOSED"
    THEN [b EXCEPT !.failure_count = Max(0, b.failure_count - 1)]
    ELSE b

\* a slip in record_failure: the count is written from a stale read, so a
\* failure that finds failures already counted adds nothing
record_failure_lost(b, t) ==
    LET c == [b EXCEPT !.failure_count = Max(b.failure_count, 1),
                       !.last_failure_time = t]
    IN  IF c.failure_count >= failure_threshold
        THEN [c EXCEPT !.state = "OPEN"]
        ELSE c

\* a slip in record_failure: the breaker opens one failure late
record_failure_late(b, t) ==
    LET c == [b EXCEPT !.failure_count = b.failure_count + 1,
                       !.last_failure_time = t]
    IN  IF c.failure_count > failure_threshold
        THEN [c EXCEPT !.state = "OPEN"]
        ELSE c

\* CircuitBreaker.record_failure at time t
record_failure(b, t) ==
    LET c == [b EXCEPT !.failure_count = b.failure_count + 1,
                       !.last_failure_time = t]
    IN  IF c.failure_count >= failure_threshold
        THEN [c EXCEPT !.state = "OPEN"]
        ELSE c

(***************************************************************************)
(* Types of the orchestrator                                               *)
(***************************************************************************)
\* SearchStrategy
CACHE == "cache"
DATABASE == "database"
HYBRID == "hybrid"

\* health_cache_ttl in clock ticks (the source default is 30.0 s; scaled)
health_cache_ttl == 1
\* _determine_search_strategy: a cache is healthy below this latency (ms)
healthy_latency_ms == 1000
\* HealthStatus, the fields the orchestrator reads
Latencies == {-1, 10, healthy_latency_ms}
HealthStatuses ==
    [is_connected : BOOLEAN, is_search_available : BOOLEAN, latency : Latencies]

\* get_cache_health's status when the probe raised and nothing is stored
Unhealthy ==
    [is_connected |-> FALSE, is_search_available |-> FALSE, latency |-> -1]

\* what cache.check_health() may do: return a status, or raise
Probed(h) == [ok |-> TRUE, status |-> h]
ProbeFailed == [ok |-> FALSE, status |-> Unhealthy]
AllProbeOutcomes == {Probed(h) : h \in HealthStatuses} \cup {ProbeFailed}

Status(c, a, l) ==
    [is_connected |-> c, is_search_available |-> a, latency |-> l]

\* the probes the request-level specifications draw from: a healthy cache, a
\* slow one, one without search, a disconnected one, and a probe that raises
ProbeOutcomes ==
    {Probed(Status(TRUE, TRUE, 10)), Probed(Status(TRUE, TRUE, healthy_latency_ms)),
     Probed(Status(TRUE, FALSE, 10)), Probed(Status(FALSE, FALSE, -1)),
     ProbeFailed}

\* self._health_cache = {}
NoHealth == [present |-> FALSE, status |-> Unhealthy, timestamp |-> 0]

\* SearchResult: id and relevance_score; from names the backend that produced
\* the object (history, to tell instances apart)
Result(i, sc, f) == [id |-> i, relevance_score |-> sc, from |-> f]

\* what the backends' search() may return
CacheAnswers ==
    { << Result("A", 80, CACHE), Result("B", 60, CACHE) >> }
DbAnswers ==
    { <<>>, << Result("B", 90, DATABASE), Result("C", 50, DATABASE) >> }

\* a backend search returns a list or raises
Returned(v) == [ok |-> TRUE, value |-> v, err |-> ""]
Raised(e) == [ok |-> FALSE, value |-> <<>>, err |-> e]
CacheOutcomes ==
    {Returned(v) : v \in CacheAnswers} \cup {Raised("cache connection refused")}
DbOutcomes ==
    {Returned(v) : v \in DbAnswers} \cup {Raised("database connection refused")}

(***************************************************************************)
(* The merge engine                                                        *)
(***************************************************************************)
\* a slip in __post_init__: the score is stored as given
ClampSkipped(sc) == sc

\* SearchResult.__post_init__: relevance_score clamped on construction
Clamp(sc) == Max(0, Min(100, sc))

\* dataclasses.replace(result, relevance_score = sc)
replace(r, sc) == [r EXCEPT !.relevance_score = Clamp(sc)]

\* int(score * weight) for a weight given in hundredths: the product cut
\* towards zero.  Python computes it in binary floating point, where
\* 90 * 0.7 = 62.99999999999999
TruncMul(sc, w) ==
    IF sc = 90 /\ w = 70 THEN 62
    ELSE IF sc * w >= 0 THEN (sc * w) \div 100
    ELSE -((-(sc * w)) \div 100)

RECURSIVE InsertDesc(_, _)
\* x placed behind every element whose score is at least its own
InsertDesc(x, s) ==
    IF s = <<>> THEN <<x>>
    ELSE IF Head(s).relevance_score >= x.relevance_score
         THEN <<Head(s)>> \o InsertDesc(x, Tail(s))
         ELSE <<x>> \o s

RECURSIVE SortDescFrom(_, _)
SortDescFrom(acc, s) ==
    IF s = <<>> THEN acc ELSE SortDescFrom(InsertDesc(Head(s), acc), Tail(s))

\* sorted(xs, key = relevance_score, reverse = True): stable
SortDesc(s) == SortDescFrom(<<>>, s)

Ids(s) == {s[k].id : k \in 1..Len(s)}

RECURSIVE DedupInto(_, _)
\* the loop "if result.id not in seen_ids: ... merged.append(result)"
DedupInto(acc, s) ==
    IF s = <<>> THEN acc
    ELSE DedupInto(IF Head(s).id \in Ids(acc) THEN acc ELSE Append(acc, Head(s)),
                   Tail(s))

\* a slip in _union_merge: the final sort is left out
union_merge_unsorted(cache_results, db_results) ==
    DedupInto(DedupInto(<<>>, cache_results), db_results)

\* SmartSearch._union_merge
union_merge(cache_results, db_results) ==
    SortDesc(DedupInto(DedupInto(<<>>, cache_results), db_results))

\* db_results_map = {r.id: r for r in db_results}: the last one of an id stays
DbMapGet(db_results, i) ==
    LET ks == {k \in 1..Len(db_results) : db_results[k].id = i}
    IN  db_results[CHOOSE k \in ks : \A j \in ks : j <= k]

RECURSIVE IntersectFrom(_, _, _)
IntersectFrom(acc, cache_results, db_results) ==
    IF cache_results = <<>> THEN acc
    ELSE LET c == Head(cache_results)
         IN  IntersectFrom(
                 IF c.id \in Ids(db_results)
                 THEN LET d == DbMapGet(db_results, c.id)
                      IN  Append(acc, IF c.relevance_score >= d.relevance_score
                                      THEN c ELSE d)
                 ELSE acc,
                 Tail(cache_results), db_results)

\* SmartSearch._intersection_merge
intersection_merge(cache_results, db_results) ==
    SortDesc(IntersectFrom(<<>>, cache_results, db_results))

\* result_map[id] = r on an insertion-ordered dict: an id already present keeps
\* its place
MapPut(m, r) ==
    IF r.id \in Ids(m)
    THEN [k \in 1..Len(m) |-> IF m[k].id = r.id THEN r ELSE m[k]]
    ELSE Append(m, r)

MapGet(m, i) == m[CHOOSE k \in 1..Len(m) : m[k].id = i]

RECURSIVE WeighCache(_, _, _)
WeighCache(m, cache_results, cw) ==
    IF cache_results = <<>> THEN m
    ELSE LET r == Head(cache_results)
         IN  WeighCache(MapPut(m, replace(r, TruncMul(r.relevance_score, cw))),
                        Tail(cache_results), cw)

RECURSIVE WeighDb(_, _, _)
WeighDb(m, db_results, dw) ==
    IF db_results = <<>> THEN m
    ELSE LET r == Head(db_results)
             w == TruncMul(r.relevance_score, dw)
         IN  WeighDb(
                 IF r.id \in Ids(m)
                 THEN LET e == MapGet(m, r.id)
                      IN  MapPut(m, replace(e, e.relevance_score + w))
                 ELSE MapPut(m, replace(r, w)),
                 Tail(db_results), dw)

\* a slip in _weighted_merge: the final sort is left out
weighted_merge_unsorted(cache_results, db_results, cw, dw) ==
    WeighDb(WeighCache(<<>>, cache_results, cw), db_results, dw)

\* SmartSearch._weighted_merge, the weights in hundredths
weighted_merge(cache_results, db_results, cw, dw) ==
    SortDesc(WeighDb(WeighCache(<<>>, cache_results, cw), db_results, dw))

\* hybrid_search config defaults: cache_weight 0.7, database_weight 0.3
cache_weight == 70
database_weight == 30

Algorithms == {"union", "intersection", "weighted"}

\* a slip in _merge_search_results: the two lists are handed over swapped
merge_search_results_swapped(c, cache_results, db_results) ==
    IF c.merging_algorithm = "intersection"
    THEN intersection_merge(db_results, cache_results)
    ELSE IF c.merging_algorithm = "weighted"
    THEN weighted_merge(db_results, cache_results, cache_weight, database_weight)
    ELSE union_merge(db_results, cache_results)

\* SmartSearch._merge_search_results
merge_search_results(c, cache_results, db_results) ==
    IF c.merging_algorithm = "union"
    THEN union_merge(cache_results, db_results)
    ELSE IF c.merging_algorithm = "intersection"
    THEN intersection_merge(cache_results, db_results)
    ELSE IF c.merging_algorithm = "weighted"
    THEN weighted_merge(cache_results, db_results, cache_weight, database_weight)
    ELSE union_merge(cache_results, db_results)

(***************************************************************************)
(* SmartSearch: the orchestrator's methods as operators on its state       *)
(***************************************************************************)
\* SmartSearch.__init__: a breaker per configured backend
NewBreakers(c) ==
    [n \in (IF c.hasCache THEN {"cache", "database"} ELSE {"database"})
        |-> NewBreaker]

\* CircuitBreaker.call at time t, the wrapped operation ending as out
call(b, t, out) ==
    LET r == is_open(b, t)
    IN  IF r.open
        THEN [cb |-> r.cb, ok |-> FALSE, value |-> <<>>,
              err |-> "Circuit breaker is OPEN", invoked |-> FALSE]
        ELSE IF out.ok
        THEN [cb |-> record_success(r.cb), ok |-> TRUE, value |-> out.value,
              err |-> "", invoked |-> TRUE]
        ELSE [cb |-> record_failure(r.cb, t), ok |-> FALSE, value |-> <<>>,
              err |-> out.err, invoked |-> TRUE]

\* the breakers after a call through one of them, with the call's outcome
ThroughBreaker(cbs, name, r) ==
    [cbs |-> [cbs EXCEPT ![name] = r.cb], ok |-> r.ok, value |-> r.value,
     err |-> r.err, invoked |-> r.invoked]

\* SmartSearch._search_with_cache
search_with_cache(c, cbs, t, out) ==
    IF ~c.hasCache
    THEN [cbs |-> cbs, ok |-> FALSE, value |-> <<>>,
          err |-> "Cache provider not configured", invoked |-> FALSE]
    ELSE ThroughBreaker(cbs, "cache", call(cbs["cache"], t, out))

\* a slip in _search_with_database: the database is called past its breaker
search_with_database_unprotected(c, cbs, t, out) ==
    [cbs |-> cbs, ok |-> out.ok, value |-> IF out.ok THEN out.value ELSE <<>>,
     err |-> IF out.ok THEN "" ELSE out.err, invoked |-> TRUE]

\* SmartSearch._search_with_database
search_with_database(c, cbs, t, out) ==
    ThroughBreaker(cbs, "database", call(cbs["database"], t, out))

\* a slip in get_cache_health: an entry as old as the TTL still counts as recent
get_cache_health_at_ttl(hc, t, pr) ==
    IF hc.present /\ t - hc.timestamp <= health_cache_ttl
    THEN [hc |-> hc, status |-> hc.status, probed |-> FALSE]
    ELSE IF pr.ok
    THEN [hc |-> [present |-> TRUE, status |-> pr.status, timestamp |-> t],
          status |-> pr.status, probed |-> TRUE]
    ELSE [hc |-> hc, status |-> IF hc.present THEN hc.status ELSE Unhealthy,
          probed |-> TRUE]

\* a slip in get_cache_health: after a failed probe the status handed back is
\* stored as if it had been observed
get_cache_health_stores_failure(hc, t, pr) ==
    IF hc.present /\ t - hc.timestamp < health_cache_ttl
    THEN [hc |-> hc, status |-> hc.status, probed |-> FALSE]
    ELSE IF pr.ok
    THEN [hc |-> [present |-> TRUE, status |-> pr.status, timestamp |-> t],
          status |-> pr.status, probed |-> TRUE]
    ELSE [hc |-> [present |-> TRUE,
                  status |-> IF hc.present THEN hc.status ELSE Unhealthy,
                  timestamp |-> t],
          status |-> IF hc.present THEN hc.status ELSE Unhealthy,
          probed |-> TRUE]

\* SmartSearch.get_cache_health called at time t (a cache is configured); pr is
\* what check_health() does if it is called
get_cache_health(hc, t, pr) ==
    IF hc.present /\ t - hc.timestamp < health_cache_ttl
    THEN [hc |-> hc, status |-> hc.status, probed |-> FALSE]
    ELSE IF pr.ok
    THEN [hc |-> [present |-> TRUE, status |-> pr.status, timestamp |-> t],
          status |-> pr.status, probed |-> TRUE]
    ELSE [hc |-> hc, status |-> IF hc.present THEN hc.status ELSE Unhealthy,
          probed |-> TRUE]

StrategyInfo(p, f, r) == [primary |-> p, fallback |-> f, reason |-> r]

\* a slip in the latency test: a cache at the limit still counts as healthy
StrategyForHealthAtLimit(h) ==
    IF h.is_connected /\ h.is_search_available /\ h.latency <= healthy_latency_ms
    THEN StrategyInfo(CACHE, DATABASE, "Cache healthy")
    ELSE IF h.is_connected /\ ~h.is_search_available
    THEN StrategyInfo(DATABASE, CACHE, "Cache connected but search unavailable")
    ELSE StrategyInfo(DATABASE, DATABASE, "Cache unavailable or unhealthy")

\* the rules of _determine_search_strategy once a health status is at hand
StrategyForHealth(h) ==
    IF h.is_connected /\ h.is_search_available /\ h.latency < healthy_latency_ms
    THEN StrategyInfo(CACHE, DATABASE, "Cache healthy")
    ELSE IF h.is_connected /\ ~h.is_search_available
    THEN StrategyInfo(DATABASE, CACHE, "Cache connected but search unavailable")
    ELSE StrategyInfo(DATABASE, DATABASE, "Cache unavailable or unhealthy")

\* SmartSearch._determine_search_strategy called at time t: the decision, the
\* breakers and the health cache afterwards, and what it looked at
determine_search_strategy(c, cbs, hc, t, pr) ==
    IF ~c.hasCache
    THEN [info |-> StrategyInfo(DATABASE, DATABASE, "No cache provider configured"),
          cbs |-> cbs, hc |-> hc, cb_open |-> FALSE, consulted |-> FALSE,
          health |-> Unhealthy, probed |-> FALSE]
    ELSE LET r == is_open(cbs["cache"], t)
             cbs1 == [cbs EXCEPT !["cache"] = r.cb]
         IN  IF r.open
             THEN [info |-> StrategyInfo(DATABASE, DATABASE,
                                         "Cache circuit breaker is open"),
                   cbs |-> cbs1, hc |-> hc, cb_open |-> TRUE, consulted |-> FALSE,
                   health |-> Unhealthy, probed |-> FALSE]
             ELSE LET g == get_cache_health(hc, t, pr)
                  IN  [info |-> StrategyForHealth(g.status),
                       cbs |-> cbs1, hc |-> g.hc, cb_open |-> FALSE,
                       consulted |-> TRUE, health |-> g.status,
                       probed |-> g.probed]

\* SearchPerformance
Performance(n, st, hit, errs) ==
    [result_count |-> n, strategy |-> st, cache_hit |-> hit, errors |-> errs]

\* history: one backend search attempted by a request
Attempt(backend, r) ==
    [backend |-> backend, ok |-> r.ok, err |-> r.err, value |-> r.value,
     invoked |-> r.invoked]

\* history: what a strategy decision looked at
NoDecision ==
    [made |-> FALSE, cb_open |-> FALSE, consulted |-> FALSE, health |-> Unhealthy]

Decision(D) ==
    [made |-> TRUE, cb_open |-> D.cb_open, consulted |-> D.consulted,
     health |-> D.health]

\* a request's record: the response (outcome, code, results, performance,
\* strategy) and the history of how it came about
NoResp ==
    [op |-> "none", outcome |-> "none", code |-> "", results |-> <<>>,
     performance |-> Performance(0, "none", FALSE, <<>>),
     strategy |-> StrategyInfo("none", "none", ""),
     source |-> "none", attempts |-> <<>>, cache_sets |-> 0,
     dec |-> NoDecision,
     cache_enabled |-> TRUE, cache_written |-> <<>>,
     message |-> <<>>, context |-> <<>>, chained |-> <<>>]

\* the error hybrid_search raises in its try block when both searches failed;
\* "except Exception" wraps it: its text goes into the outer message and
\* Python chains it to the outer error as __context__
CompleteFailure ==
    [message |-> "Both cache and database searches failed",
     code |-> "HYBRID_SEARCH_COMPLETE_FAILURE", context |-> <<>>]

\* SmartSearch.hybrid_search past its guard, at time t: both searches go
\* through their breakers and are gathered
hybrid_gather(c, cbs, t, co, do) ==
    LET C == search_with_cache(c, cbs, t, co)
        D == search_with_database(c, C.cbs, t, do)
        perf(rs) ==
            Performance(Len(rs), HYBRID, C.ok,
                        << IF C.ok THEN "None" ELSE "Cache error",
                           IF D.ok THEN "None" ELSE "Database error" >>)
        ret(rs, info, src) ==
            [NoResp EXCEPT !.outcome = "returned", !.results = rs,
                           !.performance = perf(rs), !.strategy = info,
                           !.source = src,
                           !.attempts = <<Attempt(CACHE, C), Attempt(DATABASE, D)>>]
    IN  [cbs |-> D.cbs,
         resp |->
            IF C.ok /\ D.ok
            THEN ret(merge_search_results(c, C.value, D.value),
                     StrategyInfo(HYBRID, DATABASE, "Hybrid search: merged"),
                     "merged")
            ELSE IF C.ok
            THEN ret(C.value,
                     StrategyInfo(CACHE, DATABASE,
                                  "Database failed, using cache results only"),
                     CACHE)
            ELSE IF D.ok
            THEN ret(D.value,
                     StrategyInfo(DATABASE, CACHE,
                                  "Cache failed, using database results only"),
                     DATABASE)
            ELSE [NoResp EXCEPT !.outcome = "raised",
                                !.code = "HYBRID_SEARCH_ERROR",
                                !.message = <<"Hybrid search failed: ",
                                              CompleteFailure.message>>,
                                !.context = <<>>,
                                !.chained = <<CompleteFailure>>,
                                !.attempts = <<Attempt(CACHE, C),
                                               Attempt(DATABASE, D)>>]]

\* the backend search() runs for a strategy: "if strategy == CACHE and
\* self.cache: cache ... else: database"
BackendFor(c, strategy) ==
    IF strategy = CACHE /\ c.hasCache THEN CACHE ELSE DATABASE

SearchOn(backend, c, cbs, t, out) ==
    IF backend = CACHE
    THEN search_with_cache(c, cbs, t, out)
    ELSE search_with_database(c, cbs, t, out)

\* the query of the requests and SearchOptions() as far as the cache key reads it
TheQuery == "asthma"
DefaultOptions ==
    [limit |-> 20, offset |-> 0, filters |-> "{}", sort_by |-> "relevance",
     sort_order |-> "desc"]

\* SmartSearch._generate_cache_key: "search:" and the MD5 digest, kept symbolic,
\* of the JSON of the key data in sorted key order
generate_cache_key(query, options) ==
    <<"search:", options.filters, options.limit, options.offset, query,
      options.sort_by, options.sort_order>>

\* a slip in _cache_results: the write is left out
cache_results_skipped(c, results) == <<>>

\* SmartSearch._cache_results: the cache.set calls it makes; an error of the
\* cache is logged and swallowed
cache_results(c, results) ==
    IF ~c.hasCache \/ results = <<>>
    THEN <<>>
    ELSE << [key |-> generate_cache_key(TheQuery, DefaultOptions),
             data |-> results] >>

\* search(): the write-through after a primary search that returned
write_through(c, info, cache_enabled, results) ==
    IF /\ info.primary = DATABASE /\ c.hasCache
       /\ cache_enabled /\ results # <<>>
    THEN cache_results(c, results)
    ELSE <<>>

\* search(): the SearchPerformance of a primary search that returned
primary_performance(info, results) ==
    Performance(Len(results), info.primary, info.primary = CACHE, <<>>)

\* a slip in the fallback branch: the telemetry still names the primary strategy
fallback_performance_primary(info, results, primary_error) ==
    Performance(Len(results), info.primary, info.primary = CACHE,
                <<primary_error>>)

\* search(): the SearchPerformance of a fallback search that returned
fallback_performance(info, results, primary_error) ==
    Performance(Len(results), info.fallback, info.fallback = CACHE,
                <<primary_error>>)

\* a slip in the last branch: only the fallback's error is reported
failed_performance_last(primary_error, fallback_error) ==
    Performance(0, DATABASE, FALSE, <<fallback_error>>)

\* search(): the SearchPerformance when primary and fallback both raised
failed_performance(primary_error, fallback_error) ==
    Performance(0, DATABASE, FALSE, <<primary_error, fallback_error>>)

\* SmartSearch.search at time t.  in: what the environment does when asked
\* (pr: check_health, co: cache.search, do1, do2: the first and second
\* database.search) and options.cache_enabled.
search(c, cbs, hc, t, in) ==
    LET D == determine_search_strategy(c, cbs, hc, t, in.pr)
        info == D.info
        pb == BackendFor(c, info.primary)
        fb == BackendFor(c, info.fallback)
        H == hybrid_gather(c, D.cbs, t, in.co, in.do1)
        viaHybrid == info.primary = HYBRID
        P == IF viaHybrid
             THEN [cbs |-> H.cbs, ok |-> FALSE, err |-> "Hybrid search failed",
                   value |-> <<>>, invoked |-> TRUE]
             ELSE SearchOn(pb, c, D.cbs, t, IF pb = CACHE THEN in.co ELSE in.do1)
        F == SearchOn(fb, c, P.cbs, t,
                      IF fb = CACHE THEN in.co
                      ELSE IF pb = DATABASE THEN in.do2 ELSE in.do1)
        pa == Attempt(IF viaHybrid THEN HYBRID ELSE pb, P)
    IN  IF viaHybrid /\ H.resp.outcome = "returned"
        THEN \* "return await self.hybrid_search(query, options)"
             [cbs |-> H.cbs, hc |-> D.hc, probed |-> D.probed,
              resp |-> [H.resp EXCEPT !.dec = Decision(D)]]
        ELSE IF P.ok
        THEN [cbs |-> P.cbs, hc |-> D.hc, probed |-> D.probed,
              resp |->
                [NoResp EXCEPT
                   !.outcome = "returned",
                   !.results = P.value,
                   !.performance = primary_performance(info, P.value),
                   !.strategy = info,
                   !.source = pb,
                   !.attempts = <<pa>>,
                   !.cache_sets =
                       Len(write_through(c, info, in.cache_enabled, P.value)),
                   !.cache_written =
                       write_through(c, info, in.cache_enabled, P.value),
                   !.cache_enabled = in.cache_enabled,
                   !.dec = Decision(D)]]
        ELSE [cbs |-> F.cbs, hc |-> D.hc, probed |-> D.probed,
              resp |->
                [NoResp EXCEPT
                   !.outcome = "returned",
                   !.results = F.value,
                   !.performance =
                       IF F.ok
                       THEN fallback_performance(info, F.value, P.err)
                       ELSE failed_performance(P.err, F.err),
                   !.strategy = info,
                   !.source = IF F.ok THEN fb ELSE "none",
                   !.attempts = <<pa, Attempt(fb, F)>>,
                   !.cache_enabled = in.cache_enabled,
                   !.dec = Decision(D)]]

\* a slip in hybrid_search's guard: the missing cache is not checked
hybrid_search_unguarded(c, cbs, hc, t, in) ==
    IF ~c.hybrid
    THEN search(c, cbs, hc, t, in)
    ELSE LET H == hybrid_gather(c, cbs, t, in.co, in.do1)
         IN  [cbs |-> H.cbs, hc |-> hc, probed |-> FALSE, resp |-> H.resp]

\* SmartSearch.hybrid_search at time t
hybrid_search(c, cbs, hc, t, in) ==
    IF ~c.hybrid \/ ~c.hasCache
    THEN search(c, cbs, hc, t, in)
    ELSE LET H == hybrid_gather(c, cbs, t, in.co, in.do1)
         IN  [cbs |-> H.cbs, hc |-> hc, probed |-> FALSE, resp |-> H.resp]

\* SmartSearch.get_search_stats at time t: the cache's health, the database's
\* health (dbOk: whether check_health returns), then the recommended strategy;
\* pr1 and pr2 are what the first and the second probe of the cache do
get_search_stats(c, cbs, hc, t, pr1, dbOk, pr2) ==
    LET g == IF c.hasCache
             THEN get_cache_health(hc, t, pr1)
             ELSE [hc |-> hc, status |-> Unhealthy, probed |-> FALSE]
        D == determine_search_strategy(c, cbs, g.hc, t, pr2)
    IN  IF ~dbOk
        THEN [cbs |-> cbs, hc |-> g.hc, probed1 |-> g.probed, probed2 |-> FALSE,
              resp |-> [NoResp EXCEPT !.outcome = "raised",
                                      !.code = "database check_health failed"]]
        ELSE [cbs |-> D.cbs, hc |-> D.hc, probed1 |-> g.probed,
              probed2 |-> D.probed,
              resp |-> [NoResp EXCEPT !.outcome = "returned",
                                      !.strategy = D.info,
                                      !.dec = Decision(D)]]

(***************************************************************************)
(* Spec: one SmartSearch instance.  A request is handled in one step, at   *)
(* the time it arrives; time passes between requests.                      *)
(***************************************************************************)
\* SmartSearchConfig, the fields the orchestrator branches on
Config(hasCache, hybrid) ==
    [hasCache |-> hasCache, hybrid |-> hybrid, merging_algorithm |-> "weighted"]

CanonProbe == ProbeFailed

\* what the environment may do during one search
Inputs ==
    [cache_enabled : BOOLEAN, pr : ProbeOutcomes, co : CacheOutcomes,
     do1 : DbOutcomes, do2 : DbOutcomes]

\* the attempts of a request that reached the given backend
Invoked(attempts, backend) ==
    {k \in 1..Len(attempts) :
        attempts[k].backend = backend /\ attempts[k].invoked}

\* one choice among the inputs the request never looked at
Relevant(in, R) ==
    /\ R.probed \/ in.pr = CanonProbe
    /\ Invoked(R.resp.attempts, CACHE) # {} \/ ~in.co.ok
    /\ Cardinality(Invoked(R.resp.attempts, DATABASE)) >= 1 \/ ~in.do1.ok
    /\ Cardinality(Invoked(R.resp.attempts, DATABASE)) >= 2 \/ ~in.do2.ok
    /\ in.cache_enabled \/
          (/\ R.resp.strategy.primary = DATABASE
           /\ Len(R.resp.attempts) = 1
           /\ R.resp.results # <<>>
           /\ cfg.hasCache)

\* the cache breaker is inside recovery_timeout of its last recorded failure
CacheWithin ==
    /\ cfg.hasCache
    /\ now - circuit_breakers["cache"].last_failure_time < recovery_timeout

\* a search in which the cache search raised and the database fallback served
CacheFailedDbServed(r) ==
    /\ r.strategy.primary = CACHE
    /\ Len(r.attempts) = 2
    /\ r.attempts[1].backend = CACHE
    /\ r.attempts[1].invoked /\ ~r.attempts[1].ok
    /\ r.attempts[2].backend = DATABASE /\ r.attempts[2].ok

\* a search in which the database search and its fallback both raised
DatabaseFailed(r) ==
    /\ r.strategy.primary = DATABASE /\ r.strategy.fallback = DATABASE
    /\ Len(r.attempts) = 2
    /\ ~r.attempts[1].ok /\ ~r.attempts[2].ok

\* the state after a request
Finish(op, R) ==
    /\ circuit_breakers' = R.cbs
    /\ health_cache' = R.hc
    /\ resp' = [R.resp EXCEPT !.op = op]
    /\ lastStart' = [s2 |-> s2, within |-> CacheWithin]
    /\ s2' = IF op = "search" /\ s2 >= 0 /\ s2 < failure_threshold
                /\ IF cfg.hasCache THEN CacheFailedDbServed(R.resp)
                   ELSE DatabaseFailed(R.resp)
             THEN s2 + 1
             ELSE -1
    /\ UNCHANGED <<cfg, now, bvars, gvars>>

\* the inputs a request can come to look at, given what the probe does; of
\* those it never looks at, Relevant keeps one choice
InputsFor(pr) ==
    LET D == determine_search_strategy(cfg, circuit_breakers, health_cache,
                                       now, pr)
        st == {D.info.primary, D.info.fallback}
        hybridPath == cfg.hybrid /\ cfg.hasCache
    IN  IF D.probed \/ pr = CanonProbe
        THEN [cache_enabled : IF D.info.primary = DATABASE /\ cfg.hasCache
                              THEN BOOLEAN ELSE {TRUE},
              pr : {pr},
              co : IF CACHE \in st \/ HYBRID \in st \/ hybridPath
                   THEN CacheOutcomes
                   ELSE {Raised("cache connection refused")},
              do1 : DbOutcomes,
              do2 : IF st = {DATABASE} THEN DbOutcomes
                    ELSE {Raised("database connection refused")}]
        ELSE {}

Search ==
    \E pr \in ProbeOutcomes :
      \E in \in InputsFor(pr) :
        \E R \in {search(cfg, circuit_breakers, health_cache, now, in)} :
            Relevant(in, R) /\ Finish("search", R)

HybridSearch ==
    \E pr \in (IF cfg.hybrid /\ cfg.hasCache THEN {CanonProbe} ELSE ProbeOutcomes) :
      \E in \in InputsFor(pr) :
        \E R \in {hybrid_search(cfg, circuit_breakers, health_cache, now, in)} :
            Relevant(in, R) /\
            Finish(IF cfg.hybrid /\ cfg.hasCache THEN "hybrid_search" ELSE "search", R)

GetSearchStats ==
    \E pr1 \in ProbeOutcomes, dbOk \in BOOLEAN, pr2 \in ProbeOutcomes :
      \E R \in {get_search_stats(cfg, circuit_breakers, health_cache, now,
                                pr1, dbOk, pr2)} :
          /\ R.probed1 \/ pr1 = CanonProbe
          /\ R.probed2 \/ pr2 = CanonProbe
          /\ Finish("stats", R)

OrchTick ==
    /\ Tick
    /\ UNCHANGED <<bvars, ovars, gvars>>

(***************************************************************************)
(* SpecBreaker: callers of one breaker.  call() suspends at the await of   *)
(* the wrapped operation, so a call is two steps: CallBegin (is_open and   *)
(* the dispatch) and CallReturn (the outcome is recorded).                 *)
(***************************************************************************)
Callers == 1..MaxInflight

Idle == [busy |-> FALSE, streak0 |-> 0, within |-> FALSE]

NoCall == [streak0 |-> 0, within |-> FALSE, result |-> "none", invoked |-> FALSE]

Bump(n) == Min(n + 1, failure_threshold)

\* call(): the is_open() check; an open breaker raises without dispatching
CallBegin(i) ==
    /\ ~pending[i].busy
    /\ LET r == is_open(cb, now)
           w == now - cb.last_failure_time < recovery_timeout
       IN  /\ cb' = r.cb
           /\ IF r.open
              THEN /\ lastCall' = [streak0 |-> streak, within |-> w,
                                   result |-> "CIRCUIT_BREAKER_OPEN",
                                   invoked |-> FALSE]
                   /\ streak' = Bump(streak)
                   /\ UNCHANGED pending
              ELSE /\ pending' = [pending EXCEPT
                                    ![i] = [busy |-> TRUE, streak0 |-> streak,
                                            within |-> w]]
                   /\ UNCHANGED <<lastCall, streak>>
    /\ UNCHANGED <<now, ovars, gvars>>

\* call(): the wrapped operation returns or raises
CallReturn(i, ok) ==
    /\ pending[i].busy
    /\ cb' = IF ok THEN record_success(cb) ELSE record_failure(cb, now)
    /\ streak' = IF ok THEN 0 ELSE Bump(streak)
    /\ lastCall' = [streak0 |-> pending[i].streak0, within |-> pending[i].within,
                    result |-> IF ok THEN "ok" ELSE "error", invoked |-> TRUE]
    /\ pending' = [pending EXCEPT ![i] = Idle]
    /\ UNCHANGED <<now, ovars, gvars>>

\* an is_open() observation by another reader (the strategy selector)
IsOpenObserve ==
    /\ cb' = is_open(cb, now).cb
    /\ cb' # cb
    /\ UNCHANGED <<pending, streak, lastCall, now, ovars, gvars>>

BreakerTick ==
    /\ Tick
    /\ UNCHANGED bvars
    /\ UNCHANGED ovars
    /\ UNCHANGED gvars

(***************************************************************************)
(* The governance showcase: Python values, masking.py, governance.py and   *)
(* the /search endpoint of app/main.py                                     *)
(***************************************************************************)
\* A Python value: a str (s: its characters), None, True, or a key a dict lacks
Str(s) == [k |-> "str", s |-> s]
None == [k |-> "none", s |-> <<>>]
PyTrue == [k |-> "true", s |-> <<>>]
Missing == [k |-> "missing", s |-> <<>>]

\* dict.get(key): None for a key the dict lacks
Get(v) == IF v = Missing THEN None ELSE v

\* `not value`
Falsy(v) == v.k \in {"none", "missing"} \/ (v.k = "str" /\ v.s = <<>>)

\* str(value)
PyStr(v) ==
    IF v.k = "str" THEN v.s
    ELSE IF v.k = "true" THEN <<"T", "r", "u", "e">>
    ELSE <<"N", "o", "n", "e">>

UpperLetters ==
    <<"A", "B", "C", "D", "E", "F", "G", "H", "I", "J", "K", "L", "M",
      "N", "O", "P", "Q", "R", "S", "T", "U", "V", "W", "X", "Y", "Z">>
LowerLetters ==
    <<"a", "b", "c", "d", "e", "f", "g", "h", "i", "j", "k", "l", "m",
      "n", "o", "p", "q", "r", "s", "t", "u", "v", "w", "x", "y", "z">>

\* str.lower and str.upper, one character at a time
LowerChar(c) ==
    IF \E i \in 1..Len(UpperLetters) : UpperLetters[i] = c
    THEN LowerLetters[CHOOSE i \in 1..Len(UpperLetters) : UpperLetters[i] = c]
    ELSE c
UpperChar(c) ==
    IF \E i \in 1..Len(LowerLetters) : LowerLetters[i] = c
    THEN UpperLetters[CHOOSE i \in 1..Len(LowerLetters) : LowerLetters[i] = c]
    ELSE c
lower(s) == [i \in 1..Len(s) |-> LowerChar(s[i])]

\* `sub in s` on strings
Contains(sub, s) ==
    \E i \in 0..(Len(s) - Len(sub)) : SubSeq(s, i + 1, i + Len(sub)) = sub

\* s[:n] and s[-n:]
Prefix(s, n) == SubSeq(s, 1, Min(n, Len(s)))
Suffix(s, n) == IF n = 0 \/ n >= Len(s) THEN s ELSE SubSeq(s, Len(s) - n + 1, Len(s))

Digits == <<"0", "1", "2", "3", "4", "5", "6", "7", "8", "9">>
\* f"{i}" and f"{i:04d}" for 0 <= i < 100
Decimal(i) ==
    IF i < 10 THEN <<Digits[i + 1]>>
    ELSE <<Digits[(i \div 10) + 1], Digits[(i % 10) + 1]>>
Decimal04(i) ==
    IF i < 10 THEN <<"0", "0", "0">> \o Decimal(i) ELSE <<"0", "0">> \o Decimal(i)

\* ---- utils/masking.py
redact_full(value) == None

Stars(n) == [i \in 1..n |-> "*"]

redact_part(value, keep) ==
    IF Falsy(value) THEN value
    ELSE LET s == PyStr(value)
         IN  Str(Stars(Max(0, Len(s) - keep)) \o Suffix(s, keep))

\* the digests are kept symbolic: a marker in front of the digested text
hash_value(value) ==
    IF value = None THEN None ELSE Str(<<"sha256/16:">> \o PyStr(value))

\* _TOKENS only memoises this function of the value
tokenize(value) == Str(<<"t", "o", "k", "_", "sha1/10:">> \o PyStr(value))

RECURSIVE InitialsFrom(_, _)
InitialsFrom(s, i) ==
    IF i > Len(s) THEN <<>>
    ELSE IF s[i] # " " /\ (i = 1 \/ s[i - 1] = " ")
    THEN <<UpperChar(s[i])>> \o InitialsFrom(s, i + 1)
    ELSE InitialsFrom(s, i + 1)

initials(value) ==
    IF Falsy(value) THEN value ELSE Str(InitialsFrom(PyStr(value), 1))

year_only(value) == IF Falsy(value) THEN value ELSE Str(Prefix(PyStr(value), 4))

yyyy_mm(value) == IF Falsy(value) THEN value ELSE Str(Prefix(PyStr(value), 7))

RECURSIVE strip(_)
strip(s) ==
    IF s = <<>> THEN s
    ELSE IF Head(s) = " " THEN strip(Tail(s))
    ELSE IF s[Len(s)] = " " THEN strip(SubSeq(s, 1, Len(s) - 1))
    ELSE s

\* str.split(',')[-1]
AfterLastComma(s) ==
    LET at == {i \in 1..Len(s) : s[i] = ","}
        last == CHOOSE i \in at : \A j \in at : j <= i
    IN  SubSeq(s, last + 1, Len(s))

city_only(value) ==
    IF Falsy(value) THEN value
    ELSE IF Contains(<<",">>, PyStr(value))
    THEN Str(strip(AfterLastComma(PyStr(value))))
    ELSE value

\* ---- governance.py
Fields == {"id", "name", "ssn", "dob", "address", "region", "condition",
           "clinician_id"}

\* a mask plan names a mask kind per field, "" for a field it does not list
NoMasks == [f \in Fields |-> ""]

\* the keep apply_masks passes to redact_part
redact_keep == 4

MaskValue(mask, val, old) ==
    CASE mask = "redact_full" -> redact_full(val)
      [] mask = "redact_part" -> redact_part(val, redact_keep)
      [] mask = "hash" -> hash_value(val)
      [] mask = "tokenize" -> tokenize(val)
      [] mask = "initials" -> initials(val)
      [] mask = "year_only" -> year_only(val)
      [] mask = "yyyy_mm" -> yyyy_mm(val)
      [] mask = "city_only" -> city_only(val)
      [] mask \in {"null", "none"} -> None
      [] OTHER -> old

apply_masks(row, masks) ==
    [f \in Fields |->
        IF masks[f] = "" THEN row[f] ELSE MaskValue(masks[f], Get(row[f]), row[f])]

RegionPattern ==
    <<"r", "e", "g", "i", "o", "n", " ", "i", "n", " ", "$", "{", "u", "s", "e",
      "r", ".", "a", "l", "l", "o", "w", "e", "d", "_", "r", "e", "g", "i", "o",
      "n", "s", "}">>
ClinicianPattern ==
    <<"c", "l", "i", "n", "i", "c", "i", "a", "n", "_", "i", "d", " ", "=", "=",
      " ", "$", "{", "u", "s", "e", "r", ".", "i", "d", "}">>

AllowLiterals ==
    {PyTrue, Str(<<"t", "r", "u", "e">>), Str(<<"T", "R", "U", "E">>), Str(<<"1">>)}

\* a role's entry in the policy, NoRole for a role the policy does not list
NoRole == [listed |-> FALSE, row_filter |-> Missing, column_masks |-> NoMasks]
RoleConf(rf, masks) == [listed |-> TRUE, row_filter |-> rf, column_masks |-> masks]

\* a user context: allowed_regions (a list, if given) and id
UserCtx(regions, id) ==
    [allowed_regions |-> regions, id |-> id]
NoRegions == [present |-> FALSE, list |-> <<>>]
Regions(l) == [present |-> TRUE, list |-> l]
EmptyCtx == UserCtx(NoRegions, Missing)

\* a slip in compile_policy: a role the policy does not list is given the
\* settings of the first role it lists
compile_policy_first_role(pol, role, user_ctx) ==
    LET rconf == IF role \in DOMAIN pol /\ pol[role].listed
                 THEN pol[role]
                 ELSE IF "business_user" \in DOMAIN pol
                 THEN pol["business_user"]
                 ELSE RoleConf(Str(<<"t", "r", "u", "e">>), NoMasks)
        row_filter == IF rconf.row_filter = Missing
                      THEN Str(<<"t", "r", "u", "e">>)
                      ELSE rconf.row_filter
    IN  [row_filter |-> row_filter, user_ctx |-> user_ctx,
         masks |-> rconf.column_masks]

\* compile_policy: the closure it returns (row_filter and user_ctx) and the masks
compile_policy(pol, role, user_ctx) ==
    LET rconf == IF role \in DOMAIN pol /\ pol[role].listed
                 THEN pol[role]
                 ELSE RoleConf(Str(<<"t", "r", "u", "e">>), NoMasks)
        row_filter == IF rconf.row_filter = Missing
                      THEN Str(<<"t", "r", "u", "e">>)
                      ELSE rconf.row_filter
    IN  [row_filter |-> row_filter, user_ctx |-> user_ctx,
         masks |-> rconf.column_masks]

\* a slip in the region rule: a context without allowed_regions sees every row
predicate_open(P, row) ==
    IF P.row_filter \in AllowLiterals THEN TRUE
    ELSE IF Contains(RegionPattern, P.row_filter.s)
    THEN ~P.user_ctx.allowed_regions.present
         \/ \E k \in 1..Len(P.user_ctx.allowed_regions.list) :
               P.user_ctx.allowed_regions.list[k] = Get(row["region"])
    ELSE IF Contains(ClinicianPattern, P.row_filter.s)
    THEN Get(row["clinician_id"]) = Get(P.user_ctx.id)
    ELSE TRUE

\* the predicate compile_policy returns, applied to a row
predicate(P, row) ==
    IF P.row_filter \in AllowLiterals THEN TRUE
    ELSE IF Contains(RegionPattern, P.row_filter.s)
    THEN LET allowed == IF P.user_ctx.allowed_regions.present
                        THEN P.user_ctx.allowed_regions.list
                        ELSE <<>>
         IN  \E k \in 1..Len(allowed) : allowed[k] = Get(row["region"])
    ELSE IF Contains(ClinicianPattern, P.row_filter.s)
    THEN Get(row["clinician_id"]) = Get(P.user_ctx.id)
    ELSE TRUE

\* ---- app/main.py
Healthcare == <<"h", "e", "a", "l", "t", "h", "c", "a", "r", "e">>

conditions ==
    << <<"a", "s", "t", "h", "m", "a">>,
       <<"d", "i", "a", "b", "e", "t", "e", "s">>,
       <<"h", "y", "p", "e", "r", "t", "e", "n", "s", "i", "o", "n">>,
       <<"f", "l", "u">>,
       <<"a", "l", "l", "e", "r", "g", "y">> >>

\* _generate_row(dataset, i)
generate_row(dataset, i) ==
    [id |-> Str(Prefix(dataset, 3) \o <<"-">> \o Decimal(i)),
     name |-> Str(<<"P", "a", "t", "i", "e", "n", "t", " ">> \o Decimal(i)),
     ssn |-> Str(<<"1", "2", "3", "-", "4", "5", "-">> \o Decimal04(i)),
     dob |-> Str(<<"1", "9", "8", "6", "-", "0", "3", "-", "1", "5">>),
     address |-> Str(<<"1", "2", "3", " ", "M", "a", "i", "n", " ", "S", "t", ",",
                       " ", "G", "o", "t", "h", "a", "m">>),
     region |-> IF i % 2 # 0 THEN Str(<<"N", "E">>) ELSE Str(<<"S", "W">>),
     condition |-> Str(conditions[(i % Len(conditions)) + 1]),
     clinician_id |-> Str(<<"c", "l", "i", "n", "-">> \o Decimal(i % 50))]

\* rows of the in-memory dataset of /search (range(1, 1001) in the source; scaled)
NRows == 4
\* rows the seeding of a dataset asks for (1000 and up in the source; scaled)
NSeed == 2
\* the pageSize callers ask for (25 by default in the source; scaled)
PageSize == 2

GeneratedRows(dataset, n) == [i \in 1..n |-> generate_row(dataset, i)]

\* what /seed leaves behind without external data: the top-up loop and the final
\* loop each write total_rows synthetic rows, and the meta records total_rows
NoDataset == [present |-> FALSE, file |-> <<>>, rows |-> 0]
SeededDataset(dataset, total_rows) ==
    [present |-> TRUE,
     file |-> GeneratedRows(dataset, total_rows) \o GeneratedRows(dataset, total_rows),
     rows |-> total_rows]

\* cache_key: the digest is kept symbolic, the canonical JSON of the params in
\* sorted key order followed by the policy version
cache_key(params, policy_version) ==
    <<"search:", params.dataset, params.page, params.pageSize, params.q,
      params.role, policy_version>>

\* `ql in row.get(field, '').lower()`
FieldHas(row, f, ql) ==
    Contains(ql, lower(IF row[f] = Missing THEN <<>> ELSE row[f].s))

Match(row, ql) == FieldHas(row, "name", ql) \/ FieldHas(row, "condition", ql)

NoItems == [items |-> <<>>, sources |-> <<>>, total |-> 0]

\* the scan of /search over rows[k..]: the page of masked rows, the rows they
\* were made from, and the count of the matching rows the caller may see
RECURSIVE ScanRows(_, _, _, _, _, _, _)
ScanRows(rows, k, P, ql, offset, pageSize, acc) ==
    IF k > Len(rows) THEN acc
    ELSE LET row == rows[k]
             take == acc.total >= offset /\ Len(acc.items) < pageSize
             next ==
                 IF Match(row, ql) /\ predicate(P, row)
                 THEN [items |-> IF take
                                 THEN Append(acc.items, apply_masks(row, P.masks))
                                 ELSE acc.items,
                       sources |-> IF take THEN Append(acc.sources, row)
                                   ELSE acc.sources,
                       total |-> acc.total + 1]
                 ELSE acc
         IN  ScanRows(rows, k + 1, P, ql, offset, pageSize, next)

\* the fallback of /search for a seeded dataset in which nothing matched: the
\* first pageSize lines of the file, as far as the predicate allows them
RECURSIVE FirstPage(_, _, _, _, _)
FirstPage(rows, k, P, pageSize, acc) ==
    IF k > Len(rows) \/ k > pageSize THEN acc
    ELSE LET row == rows[k]
             next == IF predicate(P, row)
                     THEN [acc EXCEPT !.items = Append(@, apply_masks(row, P.masks)),
                                      !.sources = Append(@, row)]
                     ELSE acc
         IN  FirstPage(rows, k + 1, P, pageSize, next)

\* X-User-Context: not sent, not JSON, or the JSON of a context
NoHeader == [k |-> "absent", ctx |-> EmptyCtx]
BadHeader == [k |-> "malformed", ctx |-> EmptyCtx]
JsonHeader(c) == [k |-> "json", ctx |-> c]

ParseContext(h) == IF h.k = "json" THEN h.ctx ELSE EmptyCtx

MaskedFields(masks) == {f \in Fields : masks[f] # ""}

NoGResp ==
    [n |-> 0, items |-> <<>>, sources |-> <<>>, page |-> 0, total |-> 0,
     maskedFields |-> {}, strategy |-> "none", role |-> "", user_ctx |-> EmptyCtx]

\* the payload /search computes on a cache miss
ComputeSearch(pol, meta, req, user_role, user_ctx) ==
    LET P == compile_policy(pol, user_role, user_ctx)
        ql == lower(req.q)
        offset == (req.page - 1) * req.pageSize
        scanned ==
            IF meta.present
            THEN ScanRows(meta.file, 1, P, ql, offset, req.pageSize, NoItems)
            ELSE ScanRows(GeneratedRows(req.dataset, NRows), 1, P, ql, offset,
                          req.pageSize, NoItems)
        found ==
            IF meta.present /\ scanned.total = 0
            THEN LET fb == FirstPage(meta.file, 1, P, req.pageSize, NoItems)
                 IN  [fb EXCEPT !.total = Max(Len(fb.items), meta.rows)]
            ELSE scanned
    IN  [items |-> found.items, sources |-> found.sources, page |-> req.page,
         total |-> found.total, maskedFields |-> MaskedFields(P.masks),
         strategy |-> "miss"]

\* GET /search: the Redis keys afterwards and the response
gov_search(pol, meta, rd, req) ==
    LET user_role == IF req.role = "" THEN "business_user" ELSE req.role
        user_ctx == ParseContext(req.context)
        params == [q |-> req.q, page |-> req.page, pageSize |-> req.pageSize,
                   dataset |-> req.dataset, role |-> user_role]
        key == cache_key(params, "v1")
    IN  IF key \in DOMAIN rd
        THEN [redis |-> rd, payload |-> [rd[key] EXCEPT !.strategy = "hit"],
              role |-> user_role, user_ctx |-> user_ctx]
        ELSE LET response == ComputeSearch(pol, meta, req, user_role, user_ctx)
             IN  [redis |-> [k \in DOMAIN rd \cup {key} |->
                                IF k = key THEN response ELSE rd[k]],
                  payload |-> response,
                  role |-> user_role, user_ctx |-> user_ctx]

(***************************************************************************)
(* Initial states and specifications                                       *)
(***************************************************************************)
\* the variables of the specifications that are not running
IdleBreaker ==
    /\ cb = NewBreaker
    /\ pending = [i \in Callers |-> Idle]
    /\ streak = 0
    /\ lastCall = NoCall

IdleOrchestrator ==
    /\ cfg = Config(FALSE, FALSE)
    /\ circuit_breakers = NewBreakers(cfg)
    /\ health_cache = NoHealth
    /\ resp = NoResp
    /\ s2 = -1
    /\ lastStart = [s2 |-> -1, within |-> FALSE]

NoRedis == [k \in {} |-> NoGResp]
NoEval == [done |-> FALSE, allowed |-> FALSE]
NoPolicy == [r \in {"business_user"} |-> NoRole]

IdleFn ==
    /\ fn_in = <<>>
    /\ fn_out = <<>>

IdlePolicy ==
    /\ rls_in = [policy |-> NoPolicy, role |-> "", user_ctx |-> EmptyCtx,
                 row |-> generate_row(Healthcare, 1)]
    /\ rls_out = NoEval

IdleGov ==
    /\ policy = NoPolicy
    /\ dataset_meta = NoDataset
    /\ redis = NoRedis
    /\ gresp = NoGResp
    /\ IdlePolicy
    /\ IdleFn

InitBreaker ==
    /\ IdleBreaker
    /\ IdleOrchestrator
    /\ IdleGov
    /\ now = StartTime

NextBreaker ==
    \/ \E i \in Callers : CallBegin(i)
    \/ \E i \in Callers, ok \in BOOLEAN : CallReturn(i, ok)
    \/ IsOpenObserve
    \/ BreakerTick

vars == <<cb, pending, streak, lastCall, now,
          cfg, circuit_breakers, health_cache, resp, s2, lastStart,
          policy, dataset_meta, redis, gresp, rls_in, rls_out, fn_in, fn_out>>

SpecBreaker == InitBreaker /\ [][NextBreaker]_vars

\* SmartSearch.__init__ on a configuration c
Construct(c) ==
    /\ cfg = c
    /\ circuit_breakers = NewBreakers(cfg)
    /\ health_cache = NoHealth
    /\ resp = NoResp
    /\ s2 = 0
    /\ lastStart = [s2 |-> -1, within |-> FALSE]
    /\ IdleBreaker
    /\ IdleGov
    /\ now = StartTime

\* a cache and a database, hybrid search off
Init == Construct(Config(TRUE, FALSE))

\* a database only; hybrid_search.enabled may still be set
InitNoCache == \E hy \in BOOLEAN : Construct(Config(FALSE, hy))

\* a cache and a database, hybrid_search.enabled = true
InitHybrid == Construct(Config(TRUE, TRUE))

Next ==
    \/ Search
    \/ HybridSearch
    \/ GetSearchStats
    \/ OrchTick

Spec == Init /\ [][Next]_vars

SpecNoCache == InitNoCache /\ [][Next]_vars

NextHybrid ==
    \/ Search
    \/ HybridSearch
    \/ OrchTick

SpecHybrid == InitHybrid /\ [][NextHybrid]_vars

(***************************************************************************)
(* SpecSelect: _determine_search_strategy as a function of the cache       *)
(* breaker and the cache's health.  Init draws the breaker and the health  *)
(* cache; Decide applies the selector under every probe outcome.           *)
(***************************************************************************)
Times == StartTime..MaxTime

\* breakers a run of calls can leave behind
SomeBreakers ==
    {b \in [state : {"CLOSED", "OPEN", "HALF_OPEN"},
            failure_count : {0, failure_threshold},
            success_count : {0, 1},
            last_failure_time : {0} \cup Times] :
        /\ b.state = "CLOSED" => (b.failure_count = 0 /\ b.success_count = 0)
        /\ b.state # "CLOSED" =>
              (b.failure_count = failure_threshold /\ b.last_failure_time > 0)
        /\ b.state = "OPEN" => b.success_count = 0}

SomeHealthCaches ==
    {NoHealth} \cup
    [present : {TRUE}, status : HealthStatuses, timestamp : {StartTime}]

InitSelect ==
    /\ cfg = Config(TRUE, FALSE)
    /\ \E b \in SomeBreakers :
          circuit_breakers = [NewBreakers(cfg) EXCEPT !["cache"] = b]
    /\ health_cache \in SomeHealthCaches
    /\ resp = NoResp
    /\ s2 = -1
    /\ lastStart = [s2 |-> -1, within |-> FALSE]
    /\ IdleBreaker
    /\ IdleGov
    /\ now \in {t \in Times :
                  /\ t >= circuit_breakers["cache"].last_failure_time
                  /\ circuit_breakers["cache"].state = "HALF_OPEN" =>
                        t - circuit_breakers["cache"].last_failure_time
                            >= recovery_timeout}

\* one call of _determine_search_strategy
Decide ==
    \E pr \in AllProbeOutcomes :
      \E D \in {determine_search_strategy(cfg, circuit_breakers, health_cache,
                                          now, pr)} :
        /\ D.probed \/ pr = CanonProbe
        /\ circuit_breakers' = D.cbs
        /\ health_cache' = D.hc
        /\ resp' = [NoResp EXCEPT !.op = "decide", !.outcome = "returned",
                                  !.strategy = D.info, !.dec = Decision(D)]
        /\ UNCHANGED <<cfg, now, s2, lastStart, bvars, gvars>>

NextSelect ==
    \/ Decide
    \/ OrchTick

SpecSelect == InitSelect /\ [][NextSelect]_vars

(***************************************************************************)
(* SpecGov: the showcase API.  Callers send /search requests under a       *)
(* policy file and a dataset that stay as they are; cached responses       *)
(* expire.                                                                 *)
(***************************************************************************)
\* requests served in one run
MaxRequests == 2

NE == Str(<<"N", "E">>)
SW == Str(<<"S", "W">>)
Clin(i) == Str(<<"c", "l", "i", "n", "-">> \o Decimal(i))

Masks(plan) == [f \in Fields |-> IF f \in DOMAIN plan THEN plan[f] ELSE ""]

\* scenario S4's policy, with masks for both roles
PolicyS4 ==
    [r \in {"business_user", "clinician"} |->
        IF r = "business_user"
        THEN RoleConf(Str(RegionPattern),
                      Masks([ssn |-> "redact_part", name |-> "initials"]))
        ELSE RoleConf(Str(ClinicianPattern),
                      Masks([ssn |-> "redact_full", dob |-> "year_only",
                             address |-> "city_only"]))]

\* a policy that filters nothing and lists one role only
PolicyOpen ==
    [r \in {"business_user"} |->
        RoleConf(Str(<<"t", "r", "u", "e">>),
                 Masks([ssn |-> "hash", name |-> "tokenize", dob |-> "yyyy_mm",
                        condition |-> "null", region |-> "upper"]))]

Policies == {PolicyS4, PolicyOpen}

ContextHeaders ==
    {NoHeader, BadHeader,
     JsonHeader(UserCtx(Regions(<<NE>>), Missing)),
     JsonHeader(UserCtx(Regions(<<NE, SW>>), Missing)),
     JsonHeader(UserCtx(NoRegions, Clin(1)))}

Requests ==
    [q : {<<"P", "a", "t", "i", "e", "n", "t">>, <<"F", "l", "u">>},
     page : {1, 2},
     pageSize : {PageSize},
     dataset : {Healthcare},
     role : {"", "clinician"},
     context : ContextHeaders]

InitGov ==
    /\ policy \in Policies
    /\ dataset_meta \in {NoDataset, SeededDataset(Healthcare, NSeed)}
    /\ redis = NoRedis
    /\ gresp = NoGResp
    /\ IdlePolicy
    /\ IdleFn
    /\ IdleBreaker
    /\ IdleOrchestrator
    /\ now = StartTime

\* GET /search
GovSearch ==
    /\ gresp.n < MaxRequests
    /\ \E req \in Requests :
         \E R \in {gov_search(policy, dataset_meta, redis, req)} :
           /\ redis' = R.redis
           /\ gresp' = [n |-> gresp.n + 1,
                        items |-> R.payload.items,
                        sources |-> R.payload.sources,
                        page |-> R.payload.page,
                        total |-> R.payload.total,
                        maskedFields |-> R.payload.maskedFields,
                        strategy |-> R.payload.strategy,
                        role |-> R.role,
                        user_ctx |-> R.user_ctx]
    /\ UNCHANGED <<policy, dataset_meta, rls_in, rls_out, fn_in, fn_out, now,
                   bvars, ovars>>

\* the TTL of a cached response runs out (setex, 300 s)
ExpireResponse ==
    /\ \E key \in DOMAIN redis :
         redis' = [k \in DOMAIN redis \ {key} |-> redis[k]]
    /\ UNCHANGED <<policy, dataset_meta, gresp, rls_in, rls_out, fn_in, fn_out,
                   now, bvars, ovars>>

NextGov ==
    \/ GovSearch
    \/ ExpireResponse

SpecGov == InitGov /\ [][NextGov]_vars

(***************************************************************************)
(* SpecPolicy: the predicate compile_policy returns, as a function of the  *)
(* policy, the role, the user context and the row.                         *)
(***************************************************************************)
RowFilters ==
    {Missing, PyTrue,
     Str(<<"t", "r", "u", "e">>), Str(<<"T", "R", "U", "E">>), Str(<<"1">>),
     Str(RegionPattern), Str(ClinicianPattern),
     Str(<<"(">> \o RegionPattern \o <<")">>),
     Str(<<"r", "e", "g", "i", "o", "n", " ", "=", "=", " ", "N", "E">>)}

Contexts ==
    {EmptyCtx,
     UserCtx(Regions(<<>>), Missing),
     UserCtx(Regions(<<NE>>), Missing),
     UserCtx(Regions(<<NE, SW>>), Missing),
     UserCtx(NoRegions, Clin(1)),
     UserCtx(NoRegions, Clin(2)),
     UserCtx(Regions(<<SW>>), Clin(1))}

SomeRows ==
    {generate_row(Healthcare, i) : i \in 1..NRows}
    \cup {[generate_row(Healthcare, 1) EXCEPT !["region"] = Missing,
                                              !["clinician_id"] = Missing]}

InitPolicy ==
    /\ rls_in \in [policy : {[r \in {"business_user"} |-> RoleConf(f, NoMasks)] :
                               f \in RowFilters},
                   role : {"business_user", "auditor"},
                   user_ctx : Contexts,
                   row : SomeRows]
    /\ rls_out = NoEval
    /\ IdleFn
    /\ policy = NoPolicy
    /\ dataset_meta = NoDataset
    /\ redis = NoRedis
    /\ gresp = NoGResp
    /\ IdleBreaker
    /\ IdleOrchestrator
    /\ now = StartTime

\* compile_policy, then the predicate on the row
EvalPredicate ==
    /\ ~rls_out.done
    /\ rls_out' =
          [done |-> TRUE,
           allowed |-> predicate(compile_policy(rls_in.policy, rls_in.role,
                                                rls_in.user_ctx), rls_in.row)]
    /\ UNCHANGED <<rls_in, policy, dataset_meta, redis, gresp, fn_in, fn_out,
                   now, bvars, ovars>>

NextPolicy == EvalPredicate

SpecPolicy == InitPolicy /\ [][NextPolicy]_vars

(***************************************************************************)
(* SpecMerge: hybrid_search's gathering and the three merges applied to    *)
(* what the two backends may hand back, and the scoring of a database row  *)
(***************************************************************************)
\* SearchResult(id = i, relevance_score = sc): constructed, hence clamped
SearchResult(i, sc, f) == Result(i, Clamp(sc), f)

\* the longest result list a backend hands back
MaxListLen == 2

RECURSIVE ListsOf(_, _)
\* the lists of at most n elements of E
ListsOf(E, n) ==
    IF n = 0 THEN {<<>>}
    ELSE LET S == ListsOf(E, n - 1)
         IN  S \cup {Append(s, e) : s \in {x \in S : Len(x) = n - 1}, e \in E}

\* results the cache and the database may hold: ids in common, ids of one
\* side only, equal and unequal scores, the same id twice
CacheItems == {SearchResult(i, sc, CACHE) : i \in {"A", "B"}, sc \in {60, 80}}
DbItems ==
    {SearchResult("A", 90, DATABASE), SearchResult("A", 10, DATABASE),
     SearchResult("B", 90, DATABASE), SearchResult("C", 50, DATABASE)}

\* what a database row carries for scoring: fts_rank and similarity_rank in
\* hundredths, and whether the title holds the query
NoRow == [present |-> FALSE, fts_rank |-> 0, similarity_rank |-> 0,
          title_match |-> FALSE]
Rows ==
    [present : {TRUE}, fts_rank : {-200, 0, 50, 250},
     similarity_rank : {0, 100}, title_match : BOOLEAN]

\* PostgreSQLProvider._calculate_relevance_score
calculate_relevance_score(row) ==
    LET s1 == 50 + (IF row.fts_rank # 0 THEN TruncMul(row.fts_rank, 40) ELSE 0)
        s2a == s1 + (IF row.similarity_rank # 0
                     THEN TruncMul(row.similarity_rank, 30) ELSE 0)
        s3 == s2a + (IF row.title_match THEN 20 ELSE 0)
    IN  Max(0, Min(100, s3))

\* the arguments at hand: each backend's outcome, the configured weights in
\* hundredths, a row to score
MergeInput(co, do, cw, dw) ==
    [cache |-> co, db |-> do, cache_weight |-> cw, database_weight |-> dw,
     row |-> NoRow]

\* short lists of every shape, each backend failing or not
ListInputs ==
    {MergeInput(co, do, cache_weight, database_weight) :
        co \in {Returned(l) : l \in ListsOf(CacheItems, MaxListLen)}
               \cup {Raised("cache connection refused")},
        do \in {Returned(l) : l \in ListsOf(DbItems, MaxListLen)}
               \cup {Raised("database connection refused")}}

\* one id with every score, in the cache, in the database or in both
Scores == 0..100
ScoreInputs ==
    {MergeInput(Returned(<<SearchResult("A", s, CACHE)>>), Returned(d),
                cache_weight, database_weight) :
        s \in Scores,
        d \in {<<>>} \cup {<<SearchResult("A", t, DATABASE)>> : t \in Scores}}
    \cup
    {MergeInput(Returned(<<>>), Returned(<<SearchResult("A", s, DATABASE)>>),
                cache_weight, database_weight) : s \in Scores}

\* scores given out of range and weights that are negative or sum past one
RawScores == {-20, 0, 50, 100, 130}
Weights == {-50, 30, 70, 100, 150}
WeightInputs ==
    {MergeInput(Returned(<<SearchResult("A", r1, CACHE)>>),
                Returned(<<SearchResult(i, r2, DATABASE)>>), cw, dw) :
        r1 \in RawScores, r2 \in RawScores, i \in {"A", "B"},
        cw \in Weights, dw \in Weights}

RowInputs ==
    {[MergeInput(Returned(<<>>), Returned(<<>>), cache_weight, database_weight)
        EXCEPT !.row = r] : r \in Rows}

MergeInputs == ListInputs \cup ScoreInputs \cup WeightInputs \cup RowInputs

NoOut ==
    [op |-> "none", algorithm |-> "", results |-> <<>>, resp |-> NoResp,
     score |-> 0]

\* SmartSearchConfig with hybrid search enabled and a merging algorithm chosen
MergeConfig(alg) == [Config(TRUE, TRUE) EXCEPT !.merging_algorithm = alg]

InitMerge ==
    /\ fn_in \in MergeInputs
    /\ fn_out = NoOut
    /\ policy = NoPolicy
    /\ dataset_meta = NoDataset
    /\ redis = NoRedis
    /\ gresp = NoGResp
    /\ IdlePolicy
    /\ IdleBreaker
    /\ IdleOrchestrator
    /\ now = StartTime

MergeFrame ==
    UNCHANGED <<fn_in, policy, dataset_meta, redis, gresp, rls_in, rls_out,
                now, bvars, ovars>>

\* _union_merge(cache_results, db_results)
UnionMerge ==
    /\ fn_in.cache.ok /\ fn_in.db.ok
    /\ fn_out' = [NoOut EXCEPT
                    !.op = "union_merge",
                    !.results = union_merge(fn_in.cache.value, fn_in.db.value)]
    /\ MergeFrame

\* _intersection_merge(cache_results, db_results)
IntersectionMerge ==
    /\ fn_in.cache.ok /\ fn_in.db.ok
    /\ fn_out' = [NoOut EXCEPT
                    !.op = "intersection_merge",
                    !.results = intersection_merge(fn_in.cache.value,
                                                   fn_in.db.value)]
    /\ MergeFrame

\* _weighted_merge(cache_results, db_results, cache_weight, db_weight)
WeightedMerge ==
    /\ fn_in.cache.ok /\ fn_in.db.ok
    /\ fn_out' = [NoOut EXCEPT
                    !.op = "weighted_merge",
                    !.results = weighted_merge(fn_in.cache.value, fn_in.db.value,
                                               fn_in.cache_weight,
                                               fn_in.database_weight)]
    /\ MergeFrame

\* hybrid_search on a fresh SmartSearch whose hybrid_search_config names the
\* algorithm and leaves the weights at their defaults
HybridOnce ==
    /\ fn_in.cache_weight = cache_weight
    /\ fn_in.database_weight = database_weight
    /\ ~fn_in.row.present
    /\ \E alg \in Algorithms \cup {"other"} :
         \E R \in {hybrid_search(MergeConfig(alg), NewBreakers(MergeConfig(alg)),
                                 NoHealth, StartTime,
                                 [cache_enabled |-> TRUE, pr |-> CanonProbe,
                                  co |-> fn_in.cache, do1 |-> fn_in.db,
                                  do2 |-> fn_in.db])} :
           fn_out' = [NoOut EXCEPT
                        !.op = "hybrid_search",
                        !.algorithm = alg,
                        !.results = R.resp.results,
                        !.resp = [R.resp EXCEPT !.op = "hybrid_search"]]
    /\ MergeFrame

\* a database row is scored and made a SearchResult
ScoreRow ==
    /\ fn_in.row.present
    /\ fn_out' = [NoOut EXCEPT
                    !.op = "score_row",
                    !.score = calculate_relevance_score(fn_in.row),
                    !.results = <<SearchResult("A",
                                      calculate_relevance_score(fn_in.row),
                                      DATABASE)>>]
    /\ MergeFrame

NextMerge ==
    \/ UnionMerge
    \/ IntersectionMerge
    \/ WeightedMerge
    \/ HybridOnce
    \/ ScoreRow

SpecMerge == InitMerge /\ [][NextMerge]_vars

(***************************************************************************)
(* SpecMask: the masking functions applied to a value                      *)
(***************************************************************************)
\* the longest value drawn and the largest keep asked for
MaxValueLen == 3
MaxKeep == 5

\* scenario S5's field value, "123-45-6789"
Ssn == <<"1", "2", "3", "-", "4", "5", "-", "6", "7", "8", "9">>

\* the values at hand: None, the empty string, short strings, the SSN
MaskedValues ==
    {None, Str(Ssn)}
    \cup {Str(s) : s \in UNION {[1..n -> {"1", "2", "-"}] : n \in 0..MaxValueLen}}

MaskNames ==
    {"redact_full", "redact_part", "hash", "tokenize", "initials",
     "year_only", "yyyy_mm", "city_only"}

NoMasked == [op |-> "none", mask |-> "", value |-> None, once |-> <<>>,
             twice |-> <<>>, role |-> "", listed |-> FALSE, allowed |-> FALSE,
             masks |-> NoMasks]

\* the row at hand: a generated row whose name is the value drawn
MaskedRow == [generate_row(Healthcare, 1) EXCEPT !.name = fn_in.value]

\* a mask plan naming one mask kind for every field
MaskPlan(mask) == [f \in Fields |-> mask]

InitMask ==
    /\ fn_in \in [value : MaskedValues, keep : 0..MaxKeep]
    /\ fn_out = NoMasked
    /\ policy = NoPolicy
    /\ dataset_meta = NoDataset
    /\ redis = NoRedis
    /\ gresp = NoGResp
    /\ IdlePolicy
    /\ IdleBreaker
    /\ IdleOrchestrator
    /\ now = StartTime

\* redact_part(value, keep = N) called directly
RedactPart ==
    /\ fn_out' = [NoMasked EXCEPT
                    !.op = "redact_part", !.mask = "redact_part",
                    !.value = redact_part(fn_in.value, fn_in.keep)]
    /\ MergeFrame

\* apply_masks on a field holding the value, under one of the masks
ApplyMask ==
    /\ \E mask \in MaskNames :
         fn_out' = [NoMasked EXCEPT
                      !.op = "apply_masks", !.mask = mask,
                      !.value = MaskValue(mask, Get(fn_in.value), fn_in.value)]
    /\ MergeFrame

\* apply_masks on a row, and again on what it returned, under the same plan
ApplyMasksTwice ==
    /\ \E mask \in MaskNames \cup {"null", "none"} :
         \E once \in {apply_masks(MaskedRow, MaskPlan(mask))} :
           fn_out' = [NoMasked EXCEPT
                        !.op = "apply_masks_twice", !.mask = mask,
                        !.once = once,
                        !.twice = apply_masks(once, MaskPlan(mask))]
    /\ MergeFrame

\* the roles a request may name, two of them in no policy
SomeRoles == {"business_user", "clinician", "auditor", ""}

\* mask kinds apply_masks has no branch for
UnsupportedMasks == {"upper", "REDACT_FULL", "redact"}

\* compile_policy for a role, then the predicate and apply_masks on the row
MaskForRole ==
    /\ \E pol \in Policies, role \in SomeRoles :
         \E P \in {compile_policy(pol, role, EmptyCtx)} :
           fn_out' = [NoMasked EXCEPT
                        !.op = "compile_policy", !.role = role,
                        !.listed = role \in DOMAIN pol,
                        !.allowed = predicate(P, MaskedRow),
                        !.masks = P.masks,
                        !.once = apply_masks(MaskedRow, P.masks)]
    /\ MergeFrame

\* apply_masks under a plan that names a mask kind it does not know
ApplyUnsupported ==
    /\ \E mask \in UnsupportedMasks :
         fn_out' = [NoMasked EXCEPT
                      !.op = "apply_unsupported", !.mask = mask,
                      !.once = apply_masks(MaskedRow, MaskPlan(mask))]
    /\ MergeFrame

NextMask ==
    \/ RedactPart
    \/ ApplyMask
    \/ ApplyMasksTwice
    \/ MaskForRole
    \/ ApplyUnsupported

SpecMask == InitMask /\ [][NextMask]_vars

(***************************************************************************)
(* SpecQuery: one search() on a fresh SmartSearch, with what it logs and   *)
(* the metadata it answers with                                            *)
(***************************************************************************)
\* performance.slow_query_threshold, in ms
slow_query_threshold == 1000
\* the characters of the query a log line shows: query[:50]
log_query_chars == 50

\* regular-expression character classes: \d, \w, and the classes of the
\* e-mail pattern
IsDigit(c) == \E i \in 1..Len(Digits) : Digits[i] = c
IsLetter(c) ==
    \E i \in 1..Len(LowerLetters) : LowerLetters[i] = c \/ UpperLetters[i] = c
IsWord(c) == IsDigit(c) \/ IsLetter(c) \/ c = "_"
IsLocal(c) == IsDigit(c) \/ IsLetter(c) \/ c \in {".", "_", "%", "+", "-"}
IsDomain(c) == IsDigit(c) \/ IsLetter(c) \/ c \in {".", "-"}
IsTld(c) == IsLetter(c) \/ c = "|"

\* \b between s[i] and s[i + 1] (i = 0: before the first character)
WordBoundary(s, i) ==
    (i >= 1 /\ IsWord(s[i])) # (i < Len(s) /\ IsWord(s[i + 1]))

\* s[i .. i + Len(shape) - 1] has a digit where shape has "d" and a dash where
\* it has "-", between two word boundaries
DigitsShapedAt(s, i, shape) ==
    /\ i + Len(shape) - 1 <= Len(s)
    /\ \A k \in 1..Len(shape) :
          IF shape[k] = "d" THEN IsDigit(s[i + k - 1]) ELSE s[i + k - 1] = "-"
    /\ WordBoundary(s, i - 1)
    /\ WordBoundary(s, i + Len(shape) - 1)

\* r'\b\d{3}-\d{2}-\d{4}\b' and r'\b\d{3}-\d{3}-\d{4}\b'
SsnShape == <<"d", "d", "d", "-", "d", "d", "-", "d", "d", "d", "d">>
PhoneShape == <<"d", "d", "d", "-", "d", "d", "d", "-", "d", "d", "d", "d">>

\* r'\b[A-Za-z0-9._%+-]+@[A-Za-z0-9.-]+\.[A-Z|a-z]{2,}\b' matches from i:
\* a local part up to the "@" at a, a domain up to the "." at d, two or more
\* letters up to e
EmailAt(s, i) ==
    \E a \in {k \in (i + 1)..Len(s) : s[k] = "@"} :
      \E d \in {k \in (a + 2)..Len(s) : s[k] = "."} :
        /\ WordBoundary(s, i - 1)
        /\ \A k \in i..(a - 1) : IsLocal(s[k])
        /\ \A k \in (a + 1)..(d - 1) : IsDomain(s[k])
        /\ \E e \in (d + 2)..Len(s) :
              /\ \A k \in (d + 1)..e : IsTld(s[k])
              /\ WordBoundary(s, e)

\* SmartSearch._contains_sensitive_data: re.search of the three patterns
contains_sensitive_data(query) ==
    \E i \in 1..Len(query) :
        \/ DigitsShapedAt(query, i, SsnShape)
        \/ EmailAt(query, i)
        \/ DigitsShapedAt(query, i, PhoneShape)

\* a log record: its level, which statement wrote it, and the text the query
\* contributes to its message
LogLine(level, statement, text) ==
    [level |-> level, statement |-> statement, text |-> text]

\* SmartSearch._log_search_performance
log_search_performance(c, query, performance, search_time) ==
    (IF c.log_queries \/ search_time > slow_query_threshold
     THEN << LogLine(IF \E k \in 1..Len(performance.errors) : TRUE
                     THEN "WARNING" ELSE "INFO",
                     "Search '{query[:50]}...'",
                     Prefix(query, log_query_chars)) >>
     ELSE <<>>)
    \o
    (IF search_time > slow_query_threshold
     THEN << LogLine("WARNING", "Slow query detected",
                     Prefix(query, log_query_chars)) >>
     ELSE <<>>)

Redacted == <<"[", "R", "E", "D", "A", "C", "T", "E", "D", "]">>

\* the "query" entry of SearchResponse.metadata
metadata_query(query) ==
    IF contains_sensitive_data(query) THEN Redacted ELSE query

\* what search() logs besides _log_search_performance: the strategy chosen
\* and a failed primary search; none of the two shows the query
search_log(c, r) ==
    (IF c.log_queries
     THEN << LogLine("INFO", "Using {primary} search strategy", <<>>) >>
     ELSE <<>>)
    \o
    (IF Len(r.attempts) = 2
     THEN << LogLine("WARNING", "search failed, trying fallback", <<>>) >>
     ELSE <<>>)

\* SmartSearchConfig with a cache and the performance settings
QueryConfig(log_queries, enable_metrics) ==
    [hasCache |-> TRUE, hybrid |-> FALSE, merging_algorithm |-> "weighted",
     log_queries |-> log_queries, enable_metrics |-> enable_metrics]

\* the queries at hand: an SSN, a phone number, an e-mail address, an SSN in
\* a sentence, a plain word, digits that only look like an SSN, and an SSN
\* past the characters a log line shows
Queries ==
    { <<"1", "2", "3", "-", "4", "5", "-", "6", "7", "8", "9">>,
      <<"5", "5", "5", "-", "1", "2", "3", "-", "4", "5", "6", "7">>,
      <<"j", "o", "@", "x", ".", "o", "r", "g">>,
      <<"s", "s", "n", " ", "1", "2", "3", "-", "4", "5", "-", "6", "7", "8", "9", " ", "f", "l", "u">>,
      <<"a", "s", "t", "h", "m", "a">>,
      <<"1", "2", "3", "4", "-", "5", "6", "-", "7", "8", "9", "0", "1">>,
      [k \in 1..log_query_chars |-> "x"] \o <<" ", "1", "2", "3", "-", "4", "5", "-", "6", "7", "8", "9">> }

\* performance.search_time in ms, as the clock measures it
SearchTimes == {10, slow_query_threshold, 2 * slow_query_threshold}

NoLogged ==
    [op |-> "none", resp |-> NoResp, log |-> <<>>, metadata_query |-> <<>>]

InitQuery ==
    /\ fn_in \in [query : Queries, log_queries : BOOLEAN,
                  enable_metrics : BOOLEAN, search_time : SearchTimes,
                  pr : ProbeOutcomes, co : CacheOutcomes, do : DbOutcomes]
    /\ fn_out = NoLogged
    /\ policy = NoPolicy
    /\ dataset_meta = NoDataset
    /\ redis = NoRedis
    /\ gresp = NoGResp
    /\ IdlePolicy
    /\ IdleBreaker
    /\ IdleOrchestrator
    /\ now = StartTime

\* search(query) on a fresh SmartSearch
SearchQuery ==
    /\ LET c == QueryConfig(fn_in.log_queries, fn_in.enable_metrics)
       IN  \E R \in {search(c, NewBreakers(c), NoHealth, StartTime,
                            [cache_enabled |-> TRUE, pr |-> fn_in.pr,
                             co |-> fn_in.co, do1 |-> fn_in.do,
                             do2 |-> fn_in.do])} :
             fn_out' = [op |-> "search",
                        resp |-> [R.resp EXCEPT !.op = "search"],
                        log |-> search_log(c, R.resp)
                                \o (IF c.enable_metrics
                                    THEN log_search_performance(
                                             c, fn_in.query, R.resp.performance,
                                             fn_in.search_time)
                                    ELSE <<>>),
                        metadata_query |-> metadata_query(fn_in.query)]
    /\ MergeFrame

NextQuery == SearchQuery

SpecQuery == InitQuery /\ [][NextQuery]_vars

(***************************************************************************)
(* SpecSecure: one secure_search() on a fresh SmartSearch.  The governance *)
(* service is the collaborator the spec describes: it secures the options, *)
(* masks the results and writes audit entries                              *)
(***************************************************************************)
\* DataGovernanceService.mask_sensitive_fields: the results, masked
Masked(results) ==
    [k \in 1..Len(results) |->
        [id |-> results[k].id, relevance_score |-> results[k].relevance_score,
         from |-> results[k].from, masked |-> TRUE]]

\* DataGovernanceService.audit_search_access: the entry it appends to the
\* audit log, its id being the entry's place in the log
AuditEntry(log, query, results, success, error_message) ==
    [id |-> Len(log) + 1, query |-> query, results |-> results,
     result_count |-> Len(results), success |-> success,
     error_message |-> error_message]

audit_search_access(log, query, results, success, error_message) ==
    [log |-> Append(log, AuditEntry(log, query, results, success, error_message)),
     audit_id |-> Len(log) + 1]

NoSecured ==
    [op |-> "none", outcome |-> "none", code |-> "", results |-> <<>>,
     audit_id |-> 0, context_audit_id |-> 0, audit_log |-> <<>>,
     searched |-> FALSE]

\* a slip in secure_search: a failed search is not audited
secure_search_unaudited_failure(c, governed, query, in) ==
    IF ~governed
    THEN [NoSecured EXCEPT !.op = "secure_search", !.outcome = "raised",
                           !.code = "DATA_GOVERNANCE_NOT_AVAILABLE"]
    ELSE IF ~in.rls.ok \/ ~in.mask.ok
    THEN [NoSecured EXCEPT !.op = "secure_search", !.outcome = "raised",
                           !.code = "SECURITY_ACCESS_DENIED",
                           !.searched = in.rls.ok]
    ELSE LET R == search(c, NewBreakers(c), NoHealth, StartTime, in.search)
             A == audit_search_access(<<>>, query, Masked(R.resp.results),
                                      TRUE, "")
         IN  [NoSecured EXCEPT !.op = "secure_search", !.outcome = "returned",
                               !.results = Masked(R.resp.results),
                               !.audit_id = A.audit_id, !.audit_log = A.log,
                               !.searched = TRUE]

\* SmartSearch.secure_search on a fresh orchestrator.  in: what
\* apply_row_level_security and mask_sensitive_fields do (return or raise)
\* and what the backends do during search()
secure_search(c, governed, query, in) ==
    IF ~governed
    THEN [NoSecured EXCEPT !.op = "secure_search", !.outcome = "raised",
                           !.code = "DATA_GOVERNANCE_NOT_AVAILABLE"]
    ELSE IF ~in.rls.ok \/ ~in.mask.ok
    THEN \* "except Exception as error": the failure is audited, then raised
         LET A == audit_search_access(<<>>, query, <<>>, FALSE,
                                      IF ~in.rls.ok THEN in.rls.err
                                      ELSE in.mask.err)
         IN  [NoSecured EXCEPT !.op = "secure_search", !.outcome = "raised",
                               !.code = "SECURITY_ACCESS_DENIED",
                               !.context_audit_id = A.audit_id,
                               !.audit_log = A.log,
                               !.searched = in.rls.ok]
    ELSE LET R == search(c, NewBreakers(c), NoHealth, StartTime, in.search)
             A == audit_search_access(<<>>, query, Masked(R.resp.results),
                                      TRUE, "")
         IN  [NoSecured EXCEPT !.op = "secure_search", !.outcome = "returned",
                               !.results = Masked(R.resp.results),
                               !.audit_id = A.audit_id, !.audit_log = A.log,
                               !.searched = TRUE]

\* what the governance service's two steps may do
RlsOutcomes == {Returned(<<>>), Raised("row-level security denied")}
MaskOutcomes == {Returned(<<>>), Raised("masking failed")}

InitSecure ==
    /\ fn_in \in [governed : BOOLEAN, query : {<<"1", "2", "3", "-", "4", "5", "-", "6", "7", "8", "9">>, <<"a", "s", "t", "h", "m", "a">>},
                  rls : RlsOutcomes, mask : MaskOutcomes,
                  pr : ProbeOutcomes, co : CacheOutcomes, do : DbOutcomes]
    /\ fn_out = NoSecured
    /\ policy = NoPolicy
    /\ dataset_meta = NoDataset
    /\ redis = NoRedis
    /\ gresp = NoGResp
    /\ IdlePolicy
    /\ IdleBreaker
    /\ IdleOrchestrator
    /\ now = StartTime

\* secure_search(query, user_context)
SecureSearch ==
    /\ fn_out' = secure_search(
                     Config(TRUE, FALSE), fn_in.governed, fn_in.query,
                     [rls |-> fn_in.rls, mask |-> fn_in.mask,
                      search |-> [cache_enabled |-> TRUE, pr |-> fn_in.pr,
                                  co |-> fn_in.co, do1 |-> fn_in.do,
                                  do2 |-> fn_in.do]])
    /\ MergeFrame

NextSecure == SecureSearch

SpecSecure == InitSecure /\ [][NextSecure]_vars

(***************************************************************************)
(* SpecTimeout: one search(query, options) on a SmartSearch without a      *)
(* cache, the database taking its time.  search() suspends at the await of *)
(* the backend's search, so it is two steps: SearchBegin (strategy and     *)
(* dispatch) and SearchReturn (the backend's answer is handled)            *)
(***************************************************************************)
\* how long the clock runs after construction, and the longest
\* options.timeout asked for
MaxWait == 3
MaxTimeout == 2

\* the latency of a backend call that does not complete while the clock runs
Never == MaxWait + 1

NoAwait ==
    [pc |-> "idle", started |-> 0, ended |-> 0, resp |-> NoResp]

InitTimeout ==
    /\ fn_in \in [timeout : 0..MaxTimeout,       \* 0: options.timeout is None
                  latency : (0..MaxWait) \cup {Never},
                  do : {Returned(v) : v \in DbAnswers}]
    /\ fn_out = NoAwait
    /\ policy = NoPolicy
    /\ dataset_meta = NoDataset
    /\ redis = NoRedis
    /\ gresp = NoGResp
    /\ IdlePolicy
    /\ IdleBreaker
    /\ IdleOrchestrator
    /\ now = StartTime

TimeoutFrame ==
    UNCHANGED <<fn_in, policy, dataset_meta, redis, gresp, rls_in, rls_out,
                bvars, ovars>>

\* search() up to "results = await self._search_with_database(query, options)"
SearchBegin ==
    /\ fn_out.pc = "idle"
    /\ fn_out' = [fn_out EXCEPT !.pc = "awaiting", !.started = now]
    /\ UNCHANGED now
    /\ TimeoutFrame

\* the database answers and search() runs to its return; options.timeout is
\* read nowhere on the way
SearchReturn ==
    /\ fn_out.pc = "awaiting"
    /\ fn_in.latency # Never
    /\ now - fn_out.started = fn_in.latency
    /\ \E R \in {search(Config(FALSE, FALSE), NewBreakers(Config(FALSE, FALSE)),
                        NoHealth, fn_out.started,
                        [cache_enabled |-> TRUE, pr |-> CanonProbe,
                         co |-> Raised("no cache"), do1 |-> fn_in.do,
                         do2 |-> fn_in.do])} :
         fn_out' = [fn_out EXCEPT !.pc = R.resp.outcome, !.ended = now,
                                  !.resp = [R.resp EXCEPT !.op = "search"]]
    /\ UNCHANGED now
    /\ TimeoutFrame

\* time passes, unless the backend's answer is due
TimeoutTick ==
    /\ now < StartTime + MaxWait
    /\ ~(fn_out.pc = "awaiting" /\ now - fn_out.started = fn_in.latency)
    /\ now' = now + 1
    /\ UNCHANGED fn_out
    /\ TimeoutFrame

NextTimeout ==
    \/ SearchBegin
    \/ SearchReturn
    \/ TimeoutTick

SpecTimeout == InitTimeout /\ [][NextTimeout]_vars

(***************************************************************************)
(* SpecHealth: get_cache_health and the strategy decision as functions of  *)
(* the stored health entry, the time and what the probe does               *)
(***************************************************************************)
StoredHealth ==
    {NoHealth} \cup
    [present : {TRUE}, status : {pr.status : pr \in ProbeOutcomes},
     timestamp : Times]

NoHealthOut ==
    [op |-> "none", hc |-> NoHealth, status |-> Unhealthy, probed |-> FALSE,
     info |-> StrategyInfo("none", "none", "")]

InitHealth ==
    /\ fn_in \in {i \in [hc : StoredHealth, t : Times, pr : ProbeOutcomes] :
                     i.hc.present => i.hc.timestamp <= i.t}
    /\ fn_out = NoHealthOut
    /\ policy = NoPolicy
    /\ dataset_meta = NoDataset
    /\ redis = NoRedis
    /\ gresp = NoGResp
    /\ IdlePolicy
    /\ IdleBreaker
    /\ IdleOrchestrator
    /\ now = StartTime

\* get_cache_health() at time fn_in.t
GetCacheHealth ==
    /\ \E g \in {get_cache_health(fn_in.hc, fn_in.t, fn_in.pr)} :
         fn_out' = [NoHealthOut EXCEPT !.op = "get_cache_health",
                                       !.hc = g.hc, !.status = g.status,
                                       !.probed = g.probed]
    /\ MergeFrame

\* _determine_search_strategy() at time fn_in.t, the cache breaker CLOSED
DecideOnHealth ==
    /\ \E D \in {determine_search_strategy(
                     Config(TRUE, FALSE), NewBreakers(Config(TRUE, FALSE)),
                     fn_in.hc, fn_in.t, fn_in.pr)} :
         fn_out' = [NoHealthOut EXCEPT !.op = "determine_search_strategy",
                                       !.hc = D.hc, !.status = D.health,
                                       !.probed = D.probed, !.info = D.info]
    /\ MergeFrame

NextHealth ==
    \/ GetCacheHealth
    \/ DecideOnHealth

SpecHealth == InitHealth /\ [][NextHealth]_vars

(***************************************************************************)
(* SpecStale: concurrent strategy decisions against a cache whose health   *)
(* changes once.  get_cache_health suspends at "await check_health()", so  *)
(* a probing request is three steps: HealthBegin (now = time.time(), the   *)
(* TTL test, the probe is sent), HealthAnswer (the backend samples its     *)
(* health) and HealthReturn (the answer arrives, is stored with the time   *)
(* read at HealthBegin, and the strategy is decided on it).  fn_in is the  *)
(* backend, fn_out the requests in flight and the last decision; version   *)
(* tells the status before the change (0) from the one after it (1), and   *)
(* replaced is the entry the last store overwrote.                         *)
(***************************************************************************)
HealthyCache == Status(TRUE, TRUE, 10)
DownCache == Status(FALSE, FALSE, -1)

NoProbe == [pc |-> "idle", now |-> 0, status |-> Unhealthy, version |-> 0]
NoHealthDecision ==
    [made |-> FALSE, at |-> 0, begun |-> 0, status |-> Unhealthy, version |-> 0,
     cached |-> FALSE, info |-> StrategyInfo("none", "none", "")]

InitStale ==
    /\ fn_in \in [status : {HealthyCache, DownCache}, version : {0},
                  changed_at : {0}]
    /\ fn_out = [req |-> [i \in Callers |-> NoProbe], dec |-> NoHealthDecision,
                 stored_version |-> 0, replaced |-> NoHealth]
    /\ policy = NoPolicy
    /\ dataset_meta = NoDataset
    /\ redis = NoRedis
    /\ gresp = NoGResp
    /\ IdlePolicy
    /\ IdleBreaker
    /\ IdleOrchestrator
    /\ now = StartTime

StaleFrame ==
    UNCHANGED <<policy, dataset_meta, redis, gresp, rls_in, rls_out, bvars,
                cfg, circuit_breakers, resp, s2, lastStart>>

\* the cache backend's health changes
HealthChanges ==
    /\ fn_in.version = 0
    /\ fn_in' = [status |-> IF fn_in.status = HealthyCache THEN DownCache
                            ELSE HealthyCache,
                 version |-> 1, changed_at |-> now]
    /\ UNCHANGED <<fn_out, health_cache, now>>
    /\ StaleFrame

\* _determine_search_strategy -> get_cache_health up to the await: a recent
\* entry is returned and decided on at once, otherwise the probe is sent
HealthBegin(i) ==
    /\ fn_out.req[i].pc = "idle"
    /\ LET g == get_cache_health(health_cache, now, Probed(fn_in.status))
       IN  IF g.probed
           THEN fn_out' = [fn_out EXCEPT
                             !.req[i] = [NoProbe EXCEPT !.pc = "sent",
                                                        !.now = now]]
           ELSE fn_out' = [fn_out EXCEPT
                             !.dec = [made |-> TRUE, at |-> now, begun |-> now,
                                      status |-> g.status,
                                      version |-> fn_out.stored_version,
                                      cached |-> TRUE,
                                      info |-> StrategyForHealth(g.status)]]
    /\ UNCHANGED <<fn_in, health_cache, now>>
    /\ StaleFrame

\* cache.check_health(): the backend reports the health it has now
HealthAnswer(i) ==
    /\ fn_out.req[i].pc = "sent"
    /\ fn_out' = [fn_out EXCEPT !.req[i].pc = "answered",
                                !.req[i].status = fn_in.status,
                                !.req[i].version = fn_in.version]
    /\ UNCHANGED <<fn_in, health_cache, now>>
    /\ StaleFrame

\* a slip in the store: an entry stamped later than the call's start is kept
HealthReturn_keeps_latest(i) ==
    /\ fn_out.req[i].pc = "answered"
    /\ health_cache' =
          IF health_cache.present /\ health_cache.timestamp > fn_out.req[i].now
          THEN health_cache
          ELSE [present |-> TRUE, status |-> fn_out.req[i].status,
                timestamp |-> fn_out.req[i].now]
    /\ fn_out' = [fn_out EXCEPT
                    !.req[i] = NoProbe,
                    !.stored_version = fn_out.req[i].version,
                    !.replaced = health_cache,
                    !.dec = [made |-> TRUE, at |-> now,
                             begun |-> fn_out.req[i].now,
                             status |-> fn_out.req[i].status,
                             version |-> fn_out.req[i].version,
                             cached |-> FALSE,
                             info |-> StrategyForHealth(fn_out.req[i].status)]]
    /\ UNCHANGED <<fn_in, now>>
    /\ StaleFrame

\* get_cache_health after the await: the status is stored with the time read
\* before the await; _determine_search_strategy decides on it
HealthReturn(i) ==
    /\ fn_out.req[i].pc = "answered"
    /\ health_cache' = [present |-> TRUE, status |-> fn_out.req[i].status,
                        timestamp |-> fn_out.req[i].now]
    /\ fn_out' = [fn_out EXCEPT
                    !.req[i] = NoProbe,
                    !.stored_version = fn_out.req[i].version,
                    !.replaced = health_cache,
                    !.dec = [made |-> TRUE, at |-> now,
                             begun |-> fn_out.req[i].now,
                             status |-> fn_out.req[i].status,
                             version |-> fn_out.req[i].version,
                             cached |-> FALSE,
                             info |-> StrategyForHealth(fn_out.req[i].status)]]
    /\ UNCHANGED <<fn_in, now>>
    /\ StaleFrame

StaleTick ==
    /\ Tick
    /\ UNCHANGED <<fn_in, fn_out, health_cache>>
    /\ StaleFrame

NextStale ==
    \/ HealthChanges
    \/ \E i \in Callers : HealthBegin(i)
    \/ \E i \in Callers : HealthAnswer(i)
    \/ \E i \in Callers : HealthReturn(i)
    \/ StaleTick

SpecStale == InitStale /\ [][NextStale]_vars

(***************************************************************************)
(* SpecConfig: SmartSearchConfig.__post_init__ and SmartSearch.__init__ as *)
(* functions of the circuit_breaker setting.  A dict is a record of        *)
(* entries, each present or not; given = FALSE is circuit_breaker = None.  *)
(***************************************************************************)
\* SmartSearchConfig.__post_init__ defaults
config_recovery_timeout == 60000
config_health_cache_ttl == 30000
\* SmartSearch.__init__ defaults of .get()
init_recovery_timeout == 60
init_health_cache_ttl == 30

Entry(v) == [has |-> TRUE, val |-> v]
NoEntry == [has |-> FALSE, val |-> 0]

\* dict.get(key, default)
GetOr(e, default) == IF e.has THEN e.val ELSE default

\* SmartSearchConfig.__post_init__ on the circuit_breaker argument
post_init(circuit_breaker) ==
    IF ~circuit_breaker.given
    THEN [given |-> TRUE,
          failure_threshold |-> Entry(failure_threshold),
          recovery_timeout |-> Entry(config_recovery_timeout),
          health_cache_ttl |-> Entry(config_health_cache_ttl)]
    ELSE circuit_breaker

\* SmartSearch.__init__: the breakers' settings and the health cache TTL
smart_search_init(circuit_breaker) ==
    [failure_threshold |-> GetOr(circuit_breaker.failure_threshold, failure_threshold),
     recovery_timeout |-> GetOr(circuit_breaker.recovery_timeout, init_recovery_timeout),
     health_cache_ttl |-> GetOr(circuit_breaker.health_cache_ttl, init_health_cache_ttl)]

CircuitBreakerSettings ==
    {[given |-> FALSE, failure_threshold |-> NoEntry,
      recovery_timeout |-> NoEntry, health_cache_ttl |-> NoEntry]} \cup
    [given : {TRUE},
     failure_threshold : {NoEntry, Entry(1), Entry(failure_threshold)},
     recovery_timeout : {NoEntry, Entry(init_recovery_timeout),
                         Entry(config_recovery_timeout)},
     health_cache_ttl : {NoEntry, Entry(init_health_cache_ttl),
                         Entry(config_health_cache_ttl)}]

NoBuilt ==
    [op |-> "none", failure_threshold |-> 0, recovery_timeout |-> 0,
     health_cache_ttl |-> 0, waited |-> 0, open |-> FALSE]

InitConfig ==
    /\ fn_in \in [circuit_breaker : CircuitBreakerSettings,
                   waited : {init_recovery_timeout, config_recovery_timeout}]
    /\ fn_out = NoBuilt
    /\ policy = NoPolicy
    /\ dataset_meta = NoDataset
    /\ redis = NoRedis
    /\ gresp = NoGResp
    /\ IdlePolicy
    /\ IdleBreaker
    /\ IdleOrchestrator
    /\ now = StartTime

\* SmartSearch(SmartSearchConfig(database, cache, circuit_breaker = ...))
BuildSmartSearch ==
    /\ fn_out.op = "none"
    /\ \E b \in {smart_search_init(post_init(fn_in.circuit_breaker))} :
         fn_out' = [NoBuilt EXCEPT !.op = "init",
                                   !.failure_threshold = b.failure_threshold,
                                   !.recovery_timeout = b.recovery_timeout,
                                   !.health_cache_ttl = b.health_cache_ttl]
    /\ MergeFrame

\* is_open() on the built breaker, OPEN, fn_in.waited seconds of time.time()
\* after its last failure
IsOpenAfterWait ==
    /\ fn_out.op = "init"
    /\ fn_out' = [fn_out EXCEPT !.op = "is_open", !.waited = fn_in.waited,
                                !.open = ~(fn_in.waited >= fn_out.recovery_timeout)]
    /\ MergeFrame

NextConfig ==
    \/ BuildSmartSearch
    \/ IsOpenAfterWait

SpecConfig == InitConfig /\ [][NextConfig]_vars

(***************************************************************************)
(* SpecGather: one hybrid_search past its guard.  asyncio.gather starts    *)
(* the cache task and the database task (each runs call() up to the await  *)
(* of the backend's search), the two backends answer in either order, and  *)
(* gather(return_exceptions = True) resumes hybrid_search once both tasks  *)
(* have ended.  fn_in: what the backends do; fn_out: the tasks.            *)
(***************************************************************************)
Backends == {"cache", "database"}

NoTask ==
    [st |-> "none", invoked |-> 0, recorded |-> 0, cb0 |-> NewBreaker,
     ended |-> 0]

NoGather ==
    [pc |-> "idle", task |-> [b \in Backends |-> NoTask], outcome |-> "none"]

\* time.time() at which breaker b can be in the state it is in
BreakerAt(b, t) ==
    /\ t >= b.last_failure_time
    /\ b.state = "HALF_OPEN" => t - b.last_failure_time >= recovery_timeout

InitGather ==
    /\ cfg = Config(TRUE, TRUE)
    /\ circuit_breakers \in [Backends -> SomeBreakers]
    /\ now \in {t \in Times : \A b \in Backends :
                                 BreakerAt(circuit_breakers[b], t)}
    /\ fn_in \in [Backends -> BOOLEAN]
    /\ fn_out = NoGather
    /\ health_cache = NoHealth
    /\ resp = NoResp
    /\ s2 = -1
    /\ lastStart = [s2 |-> -1, within |-> FALSE]
    /\ IdleBreaker
    /\ policy = NoPolicy
    /\ dataset_meta = NoDataset
    /\ redis = NoRedis
    /\ gresp = NoGResp
    /\ IdlePolicy

GatherFrame ==
    UNCHANGED <<fn_in, policy, dataset_meta, redis, gresp, rls_in, rls_out,
                bvars, cfg, health_cache, resp, s2, lastStart>>

\* the task of backend b up to its await: call()'s is_open() check
Started(b) ==
    LET r == is_open(circuit_breakers[b], now)
    IN  [cb |-> r.cb,
         task |-> [NoTask EXCEPT !.st = IF r.open THEN "raised" ELSE "awaiting",
                                 !.invoked = IF r.open THEN 0 ELSE 1,
                                 !.cb0 = r.cb, !.ended = now]]

\* hybrid_search: "await asyncio.gather(cache_task, db_task,
\* return_exceptions=True)" starts both tasks
GatherBegin ==
    /\ fn_out.pc = "idle"
    /\ circuit_breakers' = [b \in Backends |-> Started(b).cb]
    /\ fn_out' = [fn_out EXCEPT !.pc = "gathering",
                                !.task = [b \in Backends |-> Started(b).task]]
    /\ UNCHANGED now
    /\ GatherFrame

\* a slip in the gathering: a task that raises cancels the task still waiting
BackendAnswers_cancelling(b) ==
    /\ fn_out.pc = "gathering"
    /\ fn_out.task[b].st = "awaiting"
    /\ circuit_breakers' =
          [circuit_breakers EXCEPT
             ![b] = IF fn_in[b] THEN record_success(@)
                    ELSE record_failure(@, now)]
    /\ fn_out' = [fn_out EXCEPT
                    !.task = [o \in Backends |->
                        IF o = b
                        THEN [fn_out.task[b] EXCEPT
                                !.st = IF fn_in[b] THEN "returned" ELSE "raised",
                                !.recorded = 1, !.ended = now]
                        ELSE IF ~fn_in[b] /\ fn_out.task[o].st = "awaiting"
                        THEN [fn_out.task[o] EXCEPT !.st = "cancelled"]
                        ELSE fn_out.task[o]]]
    /\ UNCHANGED now
    /\ GatherFrame

\* call() after the await: backend b's search returns or raises, and the
\* outcome is recorded on b's breaker
BackendAnswers(b) ==
    /\ fn_out.pc = "gathering"
    /\ fn_out.task[b].st = "awaiting"
    /\ circuit_breakers' =
          [circuit_breakers EXCEPT
             ![b] = IF fn_in[b] THEN record_success(@)
                    ELSE record_failure(@, now)]
    /\ fn_out' = [fn_out EXCEPT
                    !.task[b].st = IF fn_in[b] THEN "returned" ELSE "raised",
                    !.task[b].recorded = 1,
                    !.task[b].ended = now]
    /\ UNCHANGED now
    /\ GatherFrame

\* gather returns once no task is waiting; hybrid_search goes on
GatherJoin ==
    /\ fn_out.pc = "gathering"
    /\ \A b \in Backends : fn_out.task[b].st # "awaiting"
    /\ fn_out' = [fn_out EXCEPT
                    !.pc = "joined",
                    !.outcome =
                        IF \E b \in Backends : fn_out.task[b].st = "returned"
                        THEN "returned" ELSE "raised"]
    /\ UNCHANGED <<now, circuit_breakers>>
    /\ GatherFrame

GatherTick ==
    /\ Tick
    /\ UNCHANGED <<fn_out, circuit_breakers>>
    /\ GatherFrame

NextGather ==
    \/ GatherBegin
    \/ \E b \in Backends : BackendAnswers(b)
    \/ GatherJoin
    \/ GatherTick

SpecGather == InitGather /\ [][NextGather]_vars

(***************************************************************************)
(* SpecRecover: the callers of SpecBreaker against a backend that fails    *)
(* for a while and then recovers for good (Heals); fn_in tells whether it  *)
(* has, and whether the breaker was OPEN when it did.  FairRecover adds    *)
(* what the claim about recovery assumes: time passes, calls keep being    *)
(* made and the calls in flight return.                                    *)
(***************************************************************************)
InitRecover ==
    /\ IdleBreaker
    /\ fn_in = [healed |-> FALSE, was_open |-> FALSE]
    /\ fn_out = <<>>
    /\ IdleOrchestrator
    /\ policy = NoPolicy
    /\ dataset_meta = NoDataset
    /\ redis = NoRedis
    /\ gresp = NoGResp
    /\ IdlePolicy
    /\ now = StartTime

\* the wrapped operation raises: the backend has not recovered yet
FailingReturn(i) ==
    /\ ~fn_in.healed
    /\ CallReturn(i, FALSE)

\* the backend recovers, early enough for the clock of the model to run
\* recovery_timeout past the last failure
Heals ==
    /\ ~fn_in.healed
    /\ now + recovery_timeout <= MaxTime
    /\ fn_in' = [healed |-> TRUE, was_open |-> cb.state = "OPEN"]
    /\ UNCHANGED <<bvars, ovars, now, policy, dataset_meta, redis, gresp,
                   rls_in, rls_out, fn_out>>

NextRecover ==
    \/ \E i \in Callers : CallBegin(i)
    \/ \E i \in Callers : CallReturn(i, TRUE)
    \/ \E i \in Callers : FailingReturn(i)
    \/ IsOpenObserve
    \/ Heals
    \/ BreakerTick

SpecRecover == InitRecover /\ [][NextRecover]_vars

FairRecover ==
    /\ SpecRecover
    /\ WF_vars(BreakerTick)
    /\ WF_vars(\E i \in Callers : CallBegin(i))
    /\ WF_vars(\E i \in Callers : CallReturn(i, TRUE))

(***************************************************************************)
(* SpecProviders: create_search_from_providers on a database and perhaps a *)
(* cache whose connect() and disconnect() return or raise (fn_in).         *)
(* fn_out: where the function is, the calls made on the providers in       *)
(* order, and how it ended.                                                *)
(***************************************************************************)
NoCreated == [pc |-> "called", calls |-> <<>>, outcome |-> "none"]

InitProviders ==
    /\ fn_in \in [hasCache : BOOLEAN,
                   connect : [Backends -> BOOLEAN],
                   disconnect : [Backends -> BOOLEAN]]
    /\ fn_out = NoCreated
    /\ policy = NoPolicy
    /\ dataset_meta = NoDataset
    /\ redis = NoRedis
    /\ gresp = NoGResp
    /\ IdlePolicy
    /\ IdleBreaker
    /\ IdleOrchestrator
    /\ now = StartTime

\* the providers a SmartSearch holds, in the order __aenter__ and __aexit__
\* go through them
Held == IF fn_in.hasCache THEN <<"database", "cache">> ELSE <<"database">>

RECURSIVE Awaited(_, _, _)
\* method awaited on the providers ps in turn, up to the first that raises:
\* the calls made, and whether all returned
Awaited(method, ps, ok) ==
    IF ps = <<>> THEN [calls |-> <<>>, ok |-> TRUE]
    ELSE IF ~ok[Head(ps)]
    THEN [calls |-> << <<Head(ps), method>> >>, ok |-> FALSE]
    ELSE LET r == Awaited(method, Tail(ps), ok)
         IN  [calls |-> << <<Head(ps), method>> >> \o r.calls, ok |-> r.ok]

\* SmartSearch.__aenter__
aenter == Awaited("connect", Held, fn_in.connect)

\* SmartSearch.__aexit__
aexit == Awaited("disconnect", Held, fn_in.disconnect)

\* create_search_from_providers: SmartSearchConfig(...) and SmartSearch(config)
BuildSearch ==
    /\ fn_out.pc = "called"
    /\ fn_out' = [fn_out EXCEPT !.pc = "built"]
    /\ MergeFrame

\* "async with search:" enters the context
EnterContext ==
    /\ fn_out.pc = "built"
    /\ fn_out' = [fn_out EXCEPT
                    !.calls = aenter.calls,
                    !.pc = IF aenter.ok THEN "inside" ELSE "done",
                    !.outcome = IF aenter.ok THEN "none" ELSE "raised"]
    /\ MergeFrame

\* "return search" inside the with block: the context is left first
LeaveContext ==
    /\ fn_out.pc = "inside"
    /\ fn_out' = [fn_out EXCEPT
                    !.calls = fn_out.calls \o aexit.calls,
                    !.pc = IF aexit.ok THEN "left" ELSE "done",
                    !.outcome = IF aexit.ok THEN "none" ELSE "raised"]
    /\ MergeFrame

\* the function returns the SmartSearch to its caller
ReturnSearch ==
    /\ fn_out.pc = "left"
    /\ fn_out' = [fn_out EXCEPT !.pc = "done", !.outcome = "returned"]
    /\ MergeFrame

NextProviders ==
    \/ BuildSearch
    \/ EnterContext
    \/ LeaveContext
    \/ ReturnSearch

SpecProviders == InitProviders /\ [][NextProviders]_vars

(***************************************************************************)
(* Claims                                                                  *)
(***************************************************************************)
\* C1: once failure_threshold or more calls in a row have failed, a call made
\* before recovery_timeout has passed since the last recorded failure raises
\* CIRCUIT_BREAKER_OPEN and the wrapped operation is not invoked (so no such
\* call is ever found dispatched or finished otherwise).
C1_ShortCircuit ==
    /\ (lastCall.streak0 >= failure_threshold /\ lastCall.within)
          => (lastCall.result = "CIRCUIT_BREAKER_OPEN" /\ ~lastCall.invoked)
    /\ \A i \in Callers :
          pending[i].busy =>
              ~(pending[i].streak0 >= failure_threshold /\ pending[i].within)

C1_Witness ==
    /\ lastCall.streak0 >= failure_threshold
    /\ lastCall.within
    /\ lastCall.result = "CIRCUIT_BREAKER_OPEN"
    /\ cb.failure_count = failure_threshold

\* C2: when the primary search of a search() raises (an error of the backend or
\* the breaker's own open error) and the fallback search returns, search()
\* returns the fallback's results, performance.strategy is the fallback strategy
\* and performance.errors holds exactly the primary error's string.
C2_FallbackServes ==
    (/\ resp.op = "search"
     /\ Len(resp.attempts) = 2
     /\ ~resp.attempts[1].ok
     /\ resp.attempts[2].ok)
    => (/\ resp.outcome = "returned"
        /\ resp.results = resp.attempts[2].value
        /\ \A k \in 1..Len(resp.results) :
              resp.results[k].from = resp.attempts[2].backend
        /\ resp.attempts[2].backend = BackendFor(cfg, resp.strategy.fallback)
        /\ resp.performance.strategy = resp.strategy.fallback
        /\ resp.performance.errors = <<resp.attempts[1].err>>)

\* the database breaker short-circuits the primary search and the degraded
\* cache serves as fallback
C2_Witness ==
    /\ resp.op = "search"
    /\ Len(resp.attempts) = 2
    /\ resp.attempts[1].err = "Circuit breaker is OPEN"
    /\ ~resp.attempts[1].invoked
    /\ resp.attempts[2].ok
    /\ resp.attempts[2].backend = CACHE
    /\ resp.results # <<>>

\* C3: when the primary and the fallback search of a search() both raise,
\* search() returns results = [], result_count = 0 and performance.errors =
\* [primary error, fallback error].
C3_BothFail ==
    (/\ resp.op = "search"
     /\ Len(resp.attempts) = 2
     /\ ~resp.attempts[1].ok
     /\ ~resp.attempts[2].ok)
    => (/\ resp.outcome = "returned"
        /\ resp.results = <<>>
        /\ resp.performance.result_count = 0
        /\ Len(resp.performance.errors) = 2
        /\ resp.performance.errors =
              <<resp.attempts[1].err, resp.attempts[2].err>>)

\* the cache raised, then the database raised
C3_Witness ==
    /\ resp.op = "search"
    /\ Len(resp.attempts) = 2
    /\ resp.attempts[1].backend = CACHE
    /\ resp.attempts[1].invoked /\ ~resp.attempts[1].ok
    /\ resp.attempts[2].backend = DATABASE
    /\ resp.attempts[2].invoked /\ ~resp.attempts[2].ok
    /\ resp.outcome = "returned"

\* C4: without a cache backend every strategy decision is (database, database),
\* no response reports cache or hybrid as its strategy or cache_hit = true, and
\* the cache is never searched, whatever search(), hybrid_search() and
\* get_search_stats() calls were made.
C4_NoCacheDatabaseOnly ==
    ~cfg.hasCache =>
        /\ resp.strategy.primary \in {"none", DATABASE}
        /\ resp.strategy.fallback \in {"none", DATABASE}
        /\ resp.dec.made =>
              (resp.strategy.primary = DATABASE /\ resp.strategy.fallback = DATABASE)
        /\ resp.performance.strategy \in {"none", DATABASE}
        /\ ~resp.performance.cache_hit
        /\ \A k \in 1..Len(resp.attempts) : resp.attempts[k].backend = DATABASE

\* hybrid search is enabled but no cache is configured, and a request was served
C4_Witness ==
    /\ ~cfg.hasCache
    /\ cfg.hybrid
    /\ resp.op = "search"
    /\ resp.outcome = "returned"
    /\ resp.dec.made
    /\ resp.results # <<>>
    /\ circuit_breakers["database"].failure_count > 0

\* C5: with a cache configured, _determine_search_strategy returns, for the
\* cache breaker as its is_open() observation leaves it and the health status
\* get_cache_health hands it: breaker OPEN -> (database, database); connected,
\* search available, latency < 1000 -> (cache, database); connected, search
\* unavailable -> (database, cache); anything else -> (database, database).
C5_SelectorRules ==
    (resp.op = "decide" /\ resp.dec.made) =>
        LET open == circuit_breakers["cache"].state = "OPEN"
            h == IF health_cache.present THEN health_cache.status ELSE Unhealthy
            chosen == <<resp.strategy.primary, resp.strategy.fallback>>
        IN  /\ open => chosen = <<DATABASE, DATABASE>>
            /\ (~open /\ h.is_connected /\ h.is_search_available
                    /\ h.latency < 1000)
                  => chosen = <<CACHE, DATABASE>>
            /\ (~open /\ h.is_connected /\ ~h.is_search_available)
                  => chosen = <<DATABASE, CACHE>>
            /\ (~open /\ ~h.is_connected) => chosen = <<DATABASE, DATABASE>>
            /\ (~open /\ h.is_connected /\ h.is_search_available
                    /\ h.latency >= 1000)
                  => chosen = <<DATABASE, DATABASE>>

\* a connected cache at the latency limit, decided on a breaker that had just
\* left OPEN
C5_Witness ==
    /\ resp.op = "decide"
    /\ resp.dec.made
    /\ circuit_breakers["cache"].state = "HALF_OPEN"
    /\ health_cache.present
    /\ health_cache.status = Status(TRUE, TRUE, healthy_latency_ms)
    /\ resp.strategy.primary = DATABASE

\* C6: scenario S2.  On a fresh orchestrator, after failure_threshold
\* consecutive search() calls in which the cache search raised and the database
\* fallback served, the next search() made within recovery_timeout of the last
\* failure finds the cache breaker open, resolves to primary = database with
\* the reason "Cache circuit breaker is open" and does not search the cache.
C6_ScenarioS2 ==
    (/\ resp.op = "search"
     /\ lastStart.s2 = failure_threshold
     /\ lastStart.within)
    => (/\ resp.dec.cb_open
        /\ resp.strategy.primary = DATABASE
        /\ resp.strategy.reason = "Cache circuit breaker is open"
        /\ Invoked(resp.attempts, CACHE) = {}
        /\ resp.outcome = "returned")

\* the sixth search of the scenario, served by the database
C6_Witness ==
    /\ failure_threshold = 5
    /\ resp.op = "search"
    /\ lastStart.s2 = failure_threshold
    /\ lastStart.within
    /\ resp.dec.cb_open
    /\ circuit_breakers["cache"].state = "OPEN"
    /\ resp.results # <<>>

\* C7: with hybrid_search.enabled and a cache whose breaker is not open and
\* whose health is good, search() resolves the strategy to (hybrid, database)
\* and searches both backends.
C7_HybridOverride ==
    (/\ cfg.hybrid /\ cfg.hasCache
     /\ resp.op = "search"
     /\ resp.dec.made
     /\ ~resp.dec.cb_open
     /\ resp.dec.health.is_connected
     /\ resp.dec.health.is_search_available
     /\ resp.dec.health.latency < 1000)
    => (/\ resp.strategy.primary = HYBRID
        /\ resp.strategy.fallback = DATABASE)

\* C8: every row of every /search response, computed or served from the
\* response cache, satisfies the role's row filter evaluated with the context
\* of the caller the response goes to.
C8_RowsSatisfyCallersFilter ==
    gresp.strategy # "none" =>
        \A k \in 1..Len(gresp.sources) :
            predicate(compile_policy(policy, gresp.role, gresp.user_ctx),
                      gresp.sources[k])

\* C9: the predicate compile_policy returns for a listed role allows a row
\* exactly as its row_filter says: true, "true", "1" -> every row; an expression
\* of the form region in ${user.allowed_regions} -> iff the row's region is in
\* the context's allowed_regions (no row when the context has none); an
\* expression of the form clinician_id == ${user.id} -> iff the row's
\* clinician_id is the context's id; any other expression -> every row.
C9_RowPredicate ==
    (rls_out.done /\ rls_in.role = "business_user") =>
        LET f == rls_in.policy["business_user"].row_filter
            ctx == rls_in.user_ctx
            row == rls_in.row
            regionForm == f.k = "str" /\ Contains(RegionPattern, f.s)
            clinicianForm == f.k = "str" /\ Contains(ClinicianPattern, f.s)
            inRegions == /\ ctx.allowed_regions.present
                         /\ row["region"] # Missing
                         /\ \E k \in 1..Len(ctx.allowed_regions.list) :
                               ctx.allowed_regions.list[k] = row["region"]
            sameClinician == IF row["clinician_id"] = Missing
                             THEN ctx.id = Missing
                             ELSE row["clinician_id"] = ctx.id
        IN  /\ f \in {PyTrue, Str(<<"t", "r", "u", "e">>), Str(<<"1">>)}
                  => rls_out.allowed
            /\ regionForm => (rls_out.allowed <=> inRegions)
            /\ (clinicianForm /\ ~regionForm) => (rls_out.allowed <=> sameClinician)
            /\ (f.k = "str" /\ ~regionForm /\ ~clinicianForm) => rls_out.allowed

\* scenario S4: the region filter under allowed_regions = ["NE"] drops a row of
\* region SW
C9_Witness ==
    /\ rls_out.done
    /\ rls_in.role = "business_user"
    /\ rls_in.policy["business_user"].row_filter = Str(RegionPattern)
    /\ rls_in.user_ctx = UserCtx(Regions(<<NE>>), Missing)
    /\ rls_in.row["region"] = SW
    /\ ~rls_out.allowed

\* C10: performance.strategy of a returned response names where the returned
\* results came from (hybrid only for merged results of both backends), and
\* performance.cache_hit holds iff they came from the cache.
C10_TelemetryMatchesSource ==
    (resp.op \in {"search", "hybrid_search"} /\ resp.outcome = "returned") =>
        /\ resp.source = CACHE =>
              (resp.performance.strategy = CACHE /\ resp.performance.cache_hit)
        /\ resp.source = DATABASE =>
              (resp.performance.strategy = DATABASE /\ ~resp.performance.cache_hit)
        /\ resp.source = "merged" => resp.performance.strategy = HYBRID
        /\ resp.performance.strategy = HYBRID => resp.source = "merged"
        /\ resp.source = "none" => ~resp.performance.cache_hit

\* C11: a search() writes to the cache exactly when its primary strategy was the
\* database, that search returned a non-empty list, a cache is configured and
\* options.cache_enabled is set: then it makes one cache.set, of the returned
\* list under the canonical key.  A database search that served as the fallback
\* writes nothing, and neither does a search with cache_enabled off, an empty
\* result or results from the cache.
C11_WriteThroughOnPrimary ==
    (resp.op = "search" /\ resp.outcome = "returned") =>
        LET dbPrimaryServed ==
                /\ resp.strategy.primary = DATABASE
                /\ Len(resp.attempts) = 1
                /\ resp.attempts[1].backend = DATABASE
                /\ resp.attempts[1].ok
                /\ resp.results # <<>>
        IN  IF cfg.hasCache /\ resp.cache_enabled /\ dbPrimaryServed
            THEN resp.cache_written =
                    << [key |-> generate_cache_key(TheQuery, DefaultOptions),
                        data |-> resp.results] >>
            ELSE resp.cache_written = <<>>

\* the database served as primary while the cache breaker was open, and the
\* rows were written to the cache
C11_Witness ==
    /\ resp.op = "search"
    /\ resp.dec.cb_open
    /\ resp.strategy.primary = DATABASE
    /\ resp.cache_enabled
    /\ Len(resp.cache_written) = 1
    /\ resp.cache_written[1].data = resp.results
    /\ resp.results # <<>>

\* C11 as stated: every search() in which a database search returned a
\* non-empty list, with a cache configured and cache_enabled set, makes exactly
\* one cache.set of that list; with cache_enabled off, an empty database result
\* or results from the cache it makes none.
C11_WriteThroughOnAnyDatabaseSuccess ==
    (resp.op = "search" /\ resp.outcome = "returned") =>
        LET served == {k \in 1..Len(resp.attempts) :
                          /\ resp.attempts[k].backend = DATABASE
                          /\ resp.attempts[k].ok
                          /\ resp.attempts[k].value # <<>>}
        IN  /\ (cfg.hasCache /\ resp.cache_enabled /\ served # {})
                  => /\ Len(resp.cache_written) = 1
                     /\ resp.cache_written[1].data = resp.results
            /\ (~resp.cache_enabled \/ served = {} \/ resp.source = CACHE)
                  => resp.cache_written = <<>>

\* C12: hybrid_search with hybrid enabled and a cache present returns the
\* merge of both lists (by the configured algorithm, union for an unknown
\* one) with strategy primary = hybrid when both searches succeed; exactly the
\* cache's results with primary = cache when only the cache search succeeds;
\* exactly the database's results with primary = database when only the
\* database search succeeds.
C12_HybridOutcomes ==
    fn_out.op = "hybrid_search" =>
        LET co == fn_in.cache
            do == fn_in.db
            r == fn_out.resp
            merged ==
                IF fn_out.algorithm = "intersection"
                THEN intersection_merge(co.value, do.value)
                ELSE IF fn_out.algorithm = "weighted"
                THEN weighted_merge(co.value, do.value, cache_weight,
                                    database_weight)
                ELSE union_merge(co.value, do.value)
        IN  /\ (co.ok /\ do.ok) =>
                /\ r.outcome = "returned"
                /\ r.results = merged
                /\ r.strategy.primary = HYBRID
            /\ (co.ok /\ ~do.ok) =>
                /\ r.outcome = "returned"
                /\ r.results = co.value
                /\ r.strategy.primary = CACHE
            /\ (~co.ok /\ do.ok) =>
                /\ r.outcome = "returned"
                /\ r.results = do.value
                /\ r.strategy.primary = DATABASE

C12_Witness ==
    /\ fn_out.op = "hybrid_search"
    /\ fn_out.algorithm = "weighted"
    /\ fn_in.cache.ok /\ fn_in.db.ok
    /\ Ids(fn_in.cache.value) \cap Ids(fn_in.db.value) # {}
    /\ Len(fn_out.resp.results) = 2
    /\ fn_out.resp.strategy.primary = HYBRID

\* the texts an error carries: its own message and context and those of the
\* errors chained to it
ErrorTexts(r) ==
    {r.message[k] : k \in 1..Len(r.message)}
    \cup {r.context[k] : k \in 1..Len(r.context)}
    \cup {r.chained[k].message : k \in 1..Len(r.chained)}
    \cup UNION {{r.chained[k].context[j] : j \in 1..Len(r.chained[k].context)} :
                  k \in 1..Len(r.chained)}

\* C13: when both the cache search and the database search fail in
\* hybrid_search, it returns no response and raises a hybrid-failure error
\* that carries both underlying causes, the cache error and the database
\* error.
C13_BothCausesCarried ==
    (/\ fn_out.op = "hybrid_search"
     /\ ~fn_in.cache.ok
     /\ ~fn_in.db.ok)
        => /\ fn_out.resp.outcome = "raised"
           /\ fn_in.cache.err \in ErrorTexts(fn_out.resp)
           /\ fn_in.db.err \in ErrorTexts(fn_out.resp)

\* the place of the first result with id i in list s
FirstIndex(s, i) ==
    CHOOSE k \in 1..Len(s) : s[k].id = i /\ \A j \in 1..(k - 1) : s[j].id # i

\* the place of id i in the cache list followed by the database list
PlaceInBoth(cr, dr, i) ==
    IF i \in Ids(cr) THEN FirstIndex(cr, i) ELSE Len(cr) + FirstIndex(dr, i)

\* the ids and instances of a union: ids(cache) \cup ids(db), each once, the
\* (first) cache instance for an id the cache holds, else the database's
UnionContent(cr, dr, out) ==
    /\ Ids(out) = Ids(cr) \cup Ids(dr)
    /\ Len(out) = Cardinality(Ids(cr) \cup Ids(dr))
    /\ \A k \in 1..Len(out) :
          out[k] = IF out[k].id \in Ids(cr)
                   THEN cr[FirstIndex(cr, out[k].id)]
                   ELSE dr[FirstIndex(dr, out[k].id)]

\* C14 (as amended): for all cache and database result lists the union merge
\* outputs exactly the ids in ids(cache) \cup ids(db), each exactly once, the
\* cache instance being kept for an id present in both; the output is ordered
\* by relevance_score descending, and results of equal score keep the order
\* they had in the cache list followed by the database list.
C14_UnionSortedByScore ==
    fn_out.op = "union_merge" =>
        LET cr == fn_in.cache.value
            dr == fn_in.db.value
            out == fn_out.results
        IN  /\ UnionContent(cr, dr, out)
            /\ \A j, k \in 1..Len(out) :
                  j < k =>
                     \/ out[j].relevance_score > out[k].relevance_score
                     \/ /\ out[j].relevance_score = out[k].relevance_score
                        /\ PlaceInBoth(cr, dr, out[j].id)
                              < PlaceInBoth(cr, dr, out[k].id)

C14_Witness ==
    /\ fn_out.op = "union_merge"
    /\ Len(fn_in.cache.value) = 2
    /\ fn_in.cache.value[1].relevance_score < fn_in.cache.value[2].relevance_score
    /\ Ids(fn_in.cache.value) \cap Ids(fn_in.db.value) # {}
    /\ Ids(fn_in.db.value) \ Ids(fn_in.cache.value) # {}
    /\ Len(fn_out.results) = 3
    /\ fn_out.results[1].id = fn_in.cache.value[2].id

\* C14 as stated: the same ids and instances, and the relative order the
\* cache results had in the cache list is preserved in the output.
C14_UnionKeepsCacheOrder ==
    fn_out.op = "union_merge" =>
        LET cr == fn_in.cache.value
            dr == fn_in.db.value
            out == fn_out.results
        IN  /\ UnionContent(cr, dr, out)
            /\ \A j, k \in 1..Len(out) :
                  (j < k /\ out[j].id \in Ids(cr) /\ out[k].id \in Ids(cr))
                     => FirstIndex(cr, out[j].id) < FirstIndex(cr, out[k].id)

\* the results of list s with id i
Instances(s, i) == {s[k] : k \in {j \in 1..Len(s) : s[j].id = i}}

\* C15: for all cache and database result lists the intersection merge outputs
\* exactly the ids in ids(cache) \cap ids(db); for each such id it keeps the
\* instance with the higher relevance_score, the cache instance on a tie; the
\* output is ordered by relevance_score descending.
C15_IntersectionKeepsHigher ==
    fn_out.op = "intersection_merge" =>
        LET cr == fn_in.cache.value
            dr == fn_in.db.value
            out == fn_out.results
        IN  /\ Ids(out) = Ids(cr) \cap Ids(dr)
            /\ \A k \in 1..Len(out) :
                  LET ci == Instances(cr, out[k].id)
                      di == Instances(dr, out[k].id)
                  IN  /\ out[k] \in ci \cup di
                      /\ \A x \in ci \cup di :
                            x.relevance_score <= out[k].relevance_score
                      /\ (\E x \in ci :
                             x.relevance_score = out[k].relevance_score)
                            => out[k] \in ci
            /\ \A j, k \in 1..Len(out) :
                  j < k => out[j].relevance_score >= out[k].relevance_score

\* scenario S3: what the cache and the database return
S3Cache == <<SearchResult("A", 80, CACHE), SearchResult("B", 60, CACHE)>>
S3Db == <<SearchResult("B", 90, DATABASE), SearchResult("C", 50, DATABASE)>>

\* scenario S3 was run: the weighted merge at weights 0.7 and 0.3
S3Ran ==
    /\ fn_out.op = "weighted_merge"
    /\ fn_in.cache.value = S3Cache
    /\ fn_in.db.value = S3Db
    /\ fn_in.cache_weight = 70
    /\ fn_in.database_weight = 30

\* the ids and the scores of a result list, in its order
IdsAndScores(s) == [k \in 1..Len(s) |-> <<s[k].id, s[k].relevance_score>>]

\* C16 (as amended): scenario S3, the weighted merge of cache = [A:80, B:60]
\* and db = [B:90, C:50] at cache_weight 0.7 and db_weight 0.3, yields
\* A = 56, B = 69 (42 + 27) and C = 15, in the order B, A, C.
C16_ScenarioS3 ==
    S3Ran => IdsAndScores(fn_out.results) = << <<"B", 69>>, <<"A", 56>>, <<"C", 15>> >>

C16_Witness ==
    /\ S3Ran
    /\ Len(fn_out.results) = 3
    /\ fn_out.results[1].id = "B"
    /\ fn_out.results[1].from = CACHE

\* C16 as stated: A = 56, B = 72, C = 15, in the order B, A, C.
C16_ScenarioS3AsStated ==
    S3Ran => IdsAndScores(fn_out.results) = << <<"B", 72>>, <<"A", 56>>, <<"C", 15>> >>

\* round(score * weight) for a weight in hundredths and a product that is not
\* negative: Python's round, to the nearest integer and to the even one
\* halfway between two
RoundMul(sc, w) ==
    LET q == (sc * w) \div 100
        r == (sc * w) % 100
    IN  IF r > 50 \/ (r = 50 /\ q % 2 = 1) THEN q + 1 ELSE q

\* the weighted merge ran on lists without a repeated id, at the configured
\* weights
WeightedRan ==
    /\ fn_out.op = "weighted_merge"
    /\ fn_in.cache_weight = cache_weight
    /\ fn_in.database_weight = database_weight
    /\ Len(fn_in.cache.value) = Cardinality(Ids(fn_in.cache.value))
    /\ Len(fn_in.db.value) = Cardinality(Ids(fn_in.db.value))

\* C17: in the weighted merge, for all scores in 0..100 and the configured
\* weights, a cache-only id gets relevance_score round(score * cache_weight),
\* a database-only id gets round(score * db_weight), and an id present in
\* both gets the sum of those two rounded weighted scores.
C17_WeightedScoresRounded ==
    WeightedRan =>
        LET cr == fn_in.cache.value
            dr == fn_in.db.value
            out == fn_out.results
        IN  \A k \in 1..Len(out) :
               LET i == out[k].id
                   c == IF i \in Ids(cr)
                        THEN RoundMul(cr[FirstIndex(cr, i)].relevance_score,
                                      cache_weight)
                        ELSE 0
                   d == IF i \in Ids(dr)
                        THEN RoundMul(dr[FirstIndex(dr, i)].relevance_score,
                                      database_weight)
                        ELSE 0
               IN  out[k].relevance_score = c + d

\* C18: every response produced by hybrid_search contains at most one result
\* per id, for all backend result lists (a backend may repeat an id), for
\* each of the three merge algorithms and for the outcomes where only one
\* backend succeeded.
C18_HybridIdsUnique ==
    (fn_out.op = "hybrid_search" /\ fn_out.resp.outcome = "returned")
        => Len(fn_out.resp.results) = Cardinality(Ids(fn_out.resp.results))

\* every result of list s has its relevance_score in [0, 100]
ScoresInRange(s) == \A k \in 1..Len(s) : s[k].relevance_score \in 0..100

\* C19: every SearchResult that is constructed (the lists the backends hand
\* over, from scores given in or out of range; a scored database row) or
\* produced by any of the three merge algorithms has relevance_score in
\* [0, 100], for any cache_weight and db_weight, weights that sum past 1 and
\* negative weights included.
C19_ScoresInRange ==
    /\ ScoresInRange(fn_in.cache.value)
    /\ ScoresInRange(fn_in.db.value)
    /\ ScoresInRange(fn_out.results)
    /\ ScoresInRange(fn_out.resp.results)
    /\ fn_out.score \in 0..100

C19_Witness ==
    /\ fn_out.op = "weighted_merge"
    /\ fn_in.cache_weight = 150
    /\ fn_in.database_weight = -50
    /\ fn_in.cache.value[1].relevance_score = 100
    /\ fn_in.db.value[1].relevance_score = 100
    /\ TruncMul(100, fn_in.cache_weight) > 100
    /\ TruncMul(100, fn_in.database_weight) < 0
    /\ IdsAndScores(fn_out.results) = << <<"A", 100>>, <<"B", 0>> >>

\* C20: redact_part(value, keep = N) returns, for every non-empty value and
\* every N >= 0, a string of the same length as the value in which the last N
\* characters are unchanged and every other character is '*' (all of them
\* when N = 0); "123-45-6789" with keep = 4 gives "*******6789".
C20_RedactPartShape ==
    (/\ fn_out.op = "redact_part"
     /\ fn_in.value.k = "str"
     /\ fn_in.value.s # <<>>)
        => LET s == fn_in.value.s
               n == fn_in.keep
               out == fn_out.value
           IN  /\ out.k = "str"
               /\ Len(out.s) = Len(s)
               /\ \A k \in 1..Len(s) :
                     out.s[k] = IF k > Len(s) - n THEN s[k] ELSE "*"

\* C21: masking is idempotent: apply_masks(apply_masks(row, masks), masks) =
\* apply_masks(row, masks) for every row and every mask plan built from
\* redact_full, redact_part, hash, initials, year_only, yyyy_mm, city_only
\* and null/none.
C21_MaskingIdempotent ==
    (fn_out.op = "apply_masks_twice" /\ fn_out.mask # "tokenize")
        => fn_out.twice = fn_out.once

\* C22: sensitive-pattern detection only redacts and never rejects: when a
\* query matches a sensitive pattern (SSN, e-mail, US phone) the search is
\* still executed, and no log line emitted for that search and no response
\* metadata holds the sensitive text of the query unredacted.
C22_SensitiveQueryRedacted ==
    (fn_out.op = "search" /\ contains_sensitive_data(fn_in.query))
        => /\ fn_out.resp.outcome = "returned"
           /\ \E k \in 1..Len(fn_out.resp.attempts) :
                 fn_out.resp.attempts[k].invoked
           /\ fn_out.metadata_query = Redacted
           /\ \A k \in 1..Len(fn_out.log) :
                 ~contains_sensitive_data(fn_out.log[k].text)

C24_TimeoutEnforced ==
    fn_in.timeout > 0 =>
        /\ fn_out.pc = "awaiting" => now - fn_out.started <= fn_in.timeout
        /\ fn_out.pc = "returned" =>
              fn_out.ended - fn_out.started <= fn_in.timeout

\* the stored health entry is younger than health_cache_ttl at the call
StoredIsRecent ==
    fn_in.hc.present /\ fn_in.t - fn_in.hc.timestamp < health_cache_ttl

\* C25: get_cache_health returns the stored status without probing the cache
\* backend whenever the stored entry is younger than health_cache_ttl;
\* otherwise it probes the backend and, the probe answering, stores the new
\* status with the time of the call and returns it.
C25_HealthCacheTtl ==
    fn_out.op = "get_cache_health" =>
        IF StoredIsRecent
        THEN /\ ~fn_out.probed
             /\ fn_out.status = fn_in.hc.status
             /\ fn_out.hc = fn_in.hc
        ELSE /\ fn_out.probed
             /\ fn_in.pr.ok =>
                   /\ fn_out.status = fn_in.pr.status
                   /\ fn_out.hc = [present |-> TRUE, status |-> fn_in.pr.status,
                                   timestamp |-> fn_in.t]

C25_Witness ==
    /\ fn_out.op = "get_cache_health"
    /\ fn_in.hc.present
    /\ fn_in.t - fn_in.hc.timestamp = health_cache_ttl
    /\ fn_in.pr.ok
    /\ fn_in.pr.status # fn_in.hc.status
    /\ fn_out.probed
    /\ fn_out.hc.timestamp = fn_in.t
    /\ fn_out.status = fn_in.pr.status

\* C26: when the health probe raises, get_cache_health does not raise: it
\* returns the previously stored status if there is one, leaving the stored
\* entry and its timestamp unchanged, and otherwise a synthetic status with
\* is_connected = false, is_search_available = false and latency = -1, which
\* is not stored; a strategy decision on the synthetic status is
\* (database, database).
C26_ProbeFailure ==
    (fn_out.op # "none" /\ fn_out.probed /\ ~fn_in.pr.ok)
        => /\ fn_out.hc = fn_in.hc
           /\ fn_out.status =
                 (IF fn_in.hc.present THEN fn_in.hc.status
                  ELSE Status(FALSE, FALSE, -1))
           /\ (fn_out.op = "determine_search_strategy" /\ ~fn_in.hc.present)
                 => /\ fn_out.info.primary = DATABASE
                    /\ fn_out.info.fallback = DATABASE

C26_Witness ==
    /\ fn_out.op = "determine_search_strategy"
    /\ ~fn_in.pr.ok
    /\ ~fn_in.hc.present
    /\ fn_out.probed
    /\ fn_out.hc = NoHealth
    /\ fn_out.status.latency = -1
    /\ fn_out.info.primary = DATABASE

\* C27: if the cache backend's health changes at time t and the probes
\* succeed, then every strategy decision made at or after t + health_cache_ttl
\* (the cache breaker not open) is based on a status probed at or after t,
\* whatever the interleaving of the concurrent requests.
C27_BoundedStaleness ==
    (/\ fn_out.dec.made
     /\ fn_in.version = 1
     /\ fn_out.dec.at >= fn_in.changed_at + health_cache_ttl)
    => fn_out.dec.version = 1

\* a step in which a wrapped call returns and record_success runs
SuccessRecorded ==
    \E i \in Callers :
        pending[i].busy /\ ~pending'[i].busy /\ lastCall'.result = "ok"

\* a step in which a wrapped call raises and record_failure runs
FailureRecorded ==
    \E i \in Callers :
        pending[i].busy /\ ~pending'[i].busy /\ lastCall'.result = "error"

\* C28: when a wrapped call fails while the breaker is HALF_OPEN, the breaker
\* goes to OPEN, stamps last_failure_time and resets success_count to 0,
\* whatever number of successes had been counted in HALF_OPEN before.
C28_HalfOpenFailure ==
    [][(cb.state = "HALF_OPEN" /\ FailureRecorded)
          => /\ cb'.state = "OPEN"
             /\ cb'.last_failure_time = now
             /\ cb'.success_count = 0]_vars

\* C29: while the breaker is HALF_OPEN every call passes through to the
\* wrapped operation and each success increments success_count by one; the
\* breaker goes HALF_OPEN -> CLOSED exactly when success_count reaches
\* success_threshold, and at that transition failure_count and success_count
\* are both 0.
C29_HalfOpenSuccesses ==
    [][/\ (cb.state = "HALF_OPEN" /\ lastCall' # lastCall)
             => lastCall'.result # "CIRCUIT_BREAKER_OPEN"
       /\ (cb.state = "HALF_OPEN" /\ SuccessRecorded)
             => IF cb.success_count + 1 = success_threshold
                THEN cb' = [cb EXCEPT !.state = "CLOSED", !.failure_count = 0,
                                      !.success_count = 0]
                ELSE cb' = [cb EXCEPT !.success_count = cb.success_count + 1]
       /\ (cb.state # "CLOSED" /\ cb'.state = "CLOSED")
             => /\ cb.state = "HALF_OPEN"
                /\ SuccessRecorded
                /\ cb.success_count + 1 = success_threshold
                /\ cb'.failure_count = 0
                /\ cb'.success_count = 0]_vars

C29_Witness ==
    /\ cb.state = "HALF_OPEN"
    /\ cb.success_count = success_threshold - 1
    /\ lastCall.result = "ok"
    /\ lastCall.invoked
    /\ \E i \in Callers : pending[i].busy

\* C30: a breaker leaves OPEN only through an is_open() observation made when
\* now - last_failure_time >= recovery_timeout, and then only to HALF_OPEN:
\* before that no call(), is_open() or record_success() changes the state from
\* OPEN, and a success recorded while OPEN leaves state and counters unchanged.
C30_LeavesOpenByTimeout ==
    [][/\ (cb.state = "OPEN" /\ cb'.state # "OPEN")
             => /\ cb' = [cb EXCEPT !.state = "HALF_OPEN"]
                /\ now - cb.last_failure_time >= recovery_timeout
                /\ ~SuccessRecorded
                /\ ~FailureRecorded
       /\ (cb.state = "OPEN" /\ SuccessRecorded) => cb' = cb]_vars

C30_Witness ==
    /\ cb.state = "OPEN"
    /\ lastCall.result = "ok"
    /\ lastCall.invoked
    /\ now - cb.last_failure_time < recovery_timeout

\* C31: a SmartSearch built from a SmartSearchConfig that gives no
\* circuit_breaker setting has breakers with failure_threshold 5 and a recovery
\* timeout of 60 seconds, and a health cache TTL of 30 seconds, in the unit
\* (seconds) of the clock values they are compared with: a breaker whose last
\* failure is 60 s old is no longer reported open.
C31_DefaultSettings ==
    (fn_out.op # "none" /\ ~fn_in.circuit_breaker.given)
    => /\ fn_out.failure_threshold = failure_threshold
       /\ fn_out.recovery_timeout = init_recovery_timeout
       /\ fn_out.health_cache_ttl = init_health_cache_ttl
       /\ (fn_out.op = "is_open" /\ fn_out.waited = init_recovery_timeout)
             => ~fn_out.open

C33_OpenBreakerShieldsCache ==
    (resp.op = "search" /\ resp.dec.cb_open)
    => /\ ~resp.dec.consulted
       /\ \A k \in 1..Len(resp.attempts) :
             resp.attempts[k].backend = CACHE => ~resp.attempts[k].invoked
       /\ resp.cache_sets = 0

\* C34: no lost updates on a shared breaker: under any interleaving of
\* concurrent calls each completed wrapped call applies exactly one
\* record_success or record_failure step, atomically.  A failure completing
\* while CLOSED raises failure_count by exactly one or opens the breaker, a
\* success lowers it by one (floor 0), and the failures completed since the
\* last success are all counted while the breaker is CLOSED.
C34_NoLostUpdates ==
    /\ [](cb.state = "CLOSED" => cb.failure_count >= streak)
    /\ [][/\ (cb.state = "CLOSED" /\ FailureRecorded)
                => /\ cb'.failure_count = cb.failure_count + 1
                   /\ cb'.success_count = cb.success_count
                   /\ cb'.state = (IF cb.failure_count + 1 >= failure_threshold
                                   THEN "OPEN" ELSE "CLOSED")
          /\ (cb.state = "CLOSED" /\ SuccessRecorded)
                => cb' = [cb EXCEPT !.failure_count = Max(0, cb.failure_count - 1)]
          /\ (SuccessRecorded \/ FailureRecorded)
                => Cardinality({i \in Callers : pending[i].busy}) =
                   Cardinality({i \in Callers : pending'[i].busy}) + 1]_vars

C34_Witness ==
    /\ cb.state = "CLOSED"
    /\ cb.failure_count = MaxInflight
    /\ streak = MaxInflight
    /\ lastCall.result = "error"
    /\ lastCall.streak0 = 0
    /\ \A i \in Callers : ~pending[i].busy

\* C35: in hybrid_search the cache search and the database search each go
\* through their own breaker exactly once and both are awaited to completion:
\* an exception from one neither cancels the other nor keeps the other's outcome
\* from being recorded on its breaker, in either completion order.
C35_BothSearchesComplete ==
    fn_out.pc = "joined" =>
        \A b \in Backends :
            LET k == fn_out.task[b]
            IN  IF is_open(k.cb0, k.ended).open /\ k.invoked = 0
                THEN \* rejected by the breaker: nothing dispatched or recorded
                     /\ k.st = "raised"
                     /\ k.recorded = 0
                     /\ circuit_breakers[b] = k.cb0
                ELSE /\ k.invoked = 1
                     /\ k.recorded = 1
                     /\ k.st = (IF fn_in[b] THEN "returned" ELSE "raised")
                     /\ circuit_breakers[b] =
                           (IF fn_in[b] THEN record_success(k.cb0)
                            ELSE record_failure(k.cb0, k.ended))

C35_Witness ==
    /\ fn_out.pc = "joined"
    /\ ~fn_in["cache"]
    /\ fn_in["database"]
    /\ fn_out.task["cache"].recorded = 1
    /\ fn_out.task["database"].recorded = 1
    /\ fn_out.task["cache"].ended < fn_out.task["database"].ended
    /\ fn_out.task["database"].st = "returned"
    /\ circuit_breakers["cache"].failure_count =
          fn_out.task["cache"].cb0.failure_count + 1
    /\ circuit_breakers["cache"].last_failure_time = fn_out.task["cache"].ended

\* C36: get_cache_health has no single-flight guard: concurrent calls that
\* find the entry missing or stale each probe the backend, and every probe that
\* completes stores its status stamped with the time its call started, so
\* the entry left is that of the probe completing last and a status from a
\* call that started earlier can replace one stored by a call that started
\* later (the stored timestamp can decrease).
C36_LastProbeWins ==
    [][/\ \A i \in Callers :
             (fn_out.req[i].pc = "answered" /\ fn_out'.req[i].pc = "idle")
                => health_cache' = [present |-> TRUE,
                                    status |-> fn_out.req[i].status,
                                    timestamp |-> fn_out.req[i].now]
       /\ \A i \in Callers :
             (fn_out.req[i].pc = "idle" /\ fn_out'.req[i].pc = "sent")
                => /\ ~(health_cache.present
                        /\ now - health_cache.timestamp < health_cache_ttl)
                   /\ fn_out'.req[i].now = now]_vars

C36_Witness ==
    /\ fn_out.replaced.present
    /\ health_cache.timestamp < fn_out.replaced.timestamp
    /\ ~fn_out.dec.cached
    /\ fn_out.dec.begun = health_cache.timestamp

\* C37: when the resolved strategy is (database, database) and the primary
\* database search fails, search() runs the database search a second time as
\* the fallback through the same breaker, so one request can record two
\* failures on the database breaker: without a cache and with
\* failure_threshold = 5 the first two failing requests leave failure_count at
\* 2 and 4, and the breaker opens during the third.
C37_DatabaseSearchedTwice ==
    /\ (/\ resp.op = "search"
        /\ resp.strategy.primary = DATABASE /\ resp.strategy.fallback = DATABASE
        /\ ~resp.attempts[1].ok)
       => /\ Len(resp.attempts) = 2
          /\ resp.attempts[1].backend = DATABASE
          /\ resp.attempts[2].backend = DATABASE
    /\ (/\ ~cfg.hasCache
        /\ resp.op = "search"
        /\ lastStart.s2 \in 0..2
        /\ DatabaseFailed(resp))
       => LET b == circuit_breakers["database"]
          IN  IF lastStart.s2 < 2
              THEN /\ resp.attempts[1].invoked /\ resp.attempts[2].invoked
                   /\ b.state = "CLOSED"
                   /\ b.failure_count = 2 * (lastStart.s2 + 1)
              ELSE /\ resp.attempts[1].invoked /\ ~resp.attempts[2].invoked
                   /\ b.state = "OPEN"
                   /\ b.failure_count = failure_threshold

C37_Witness ==
    /\ failure_threshold = 5
    /\ ~cfg.hasCache
    /\ resp.op = "search"
    /\ lastStart.s2 = 2
    /\ DatabaseFailed(resp)
    /\ circuit_breakers["database"].state = "OPEN"
    /\ resp.attempts[2].err = "Circuit breaker is OPEN"

\* C38: breaker recovery is live: if from some point on every wrapped call
\* succeeds and calls keep being made, a breaker that is OPEN eventually
\* becomes HALF_OPEN (recovery_timeout after the last failure), then CLOSED,
\* and stays CLOSED from then on.
\* Stated as: once healed the breaker eventually is CLOSED; it leaves OPEN
\* only for HALF_OPEN and only after the timeout, leaves HALF_OPEN only for
\* CLOSED, and never leaves CLOSED.
C38_RecoveryIsLive ==
    /\ fn_in.healed ~> (cb.state = "CLOSED")
    /\ [][(fn_in.healed /\ cb.state = "OPEN" /\ cb'.state # "OPEN")
             => /\ cb'.state = "HALF_OPEN"
                /\ now - cb.last_failure_time >= recovery_timeout]_vars
    /\ [][(fn_in.healed /\ cb.state = "HALF_OPEN")
             => cb'.state \in {"HALF_OPEN", "CLOSED"}]_vars
    /\ [][(fn_in.healed /\ cb.state = "CLOSED") => cb'.state = "CLOSED"]_vars

C38_Witness ==
    /\ fn_in.healed
    /\ fn_in.was_open
    /\ cb.state = "CLOSED"
    /\ cb.failure_count = 0
    /\ now - cb.last_failure_time >= recovery_timeout

\* provider p is connected after the calls cs: connect() was called on it and
\* no disconnect() after that
ConnectedAfter(cs, p) ==
    \E k \in 1..Len(cs) :
        /\ cs[k] = <<p, "connect">>
        /\ \A j \in k + 1..Len(cs) : cs[j] # <<p, "disconnect">>

\* C39: the SmartSearch returned by create_search_from_providers has
\* initialized connections: connect() has been called on the database (and on
\* the cache when given) and no disconnect() has been called on them after
\* that connect() by the time the function returns.
C39_ReturnedConnected ==
    fn_out.outcome = "returned"
    => /\ ConnectedAfter(fn_out.calls, "database")
       /\ fn_in.hasCache => ConnectedAfter(fn_out.calls, "cache")

\* C40: for a role the policy does not list, compile_policy yields a
\* predicate that allows every row and an empty mask plan, so apply_masks
\* returns the row with every field unchanged; and a field whose mask kind is
\* not one of the supported names is returned unchanged.
C40_UnlistedRoleUnmasked ==
    /\ (fn_out.op = "compile_policy" /\ ~fn_out.listed)
          => /\ fn_out.allowed
             /\ fn_out.masks = NoMasks
             /\ fn_out.once = MaskedRow
    /\ fn_out.op = "apply_unsupported" => fn_out.once = MaskedRow

C40_Witness ==
    /\ fn_out.op = "compile_policy"
    /\ fn_out.role = "clinician"
    /\ ~fn_out.listed
    /\ fn_out.allowed
    /\ fn_out.masks = NoMasks
    /\ fn_out.once = MaskedRow

====
